---- MODULE Spec2Model ----
(***************************************************************************)
(* Candidate lifecycle manager of pytelv2ray: the servers table of         *)
(* core/database.py (DatabaseManager) and the pipeline stages of           *)
(* core/pipeline.py that read and write it.                                *)
(*                                                                         *)
(* The clock `now` is the local wall clock (datetime.datetime.now()), in   *)
(* hours.  The UTC clock (datetime.datetime.utcnow()) is now - off for the *)
(* zone offset `off` of the process.                                       *)
(***************************************************************************)
EXTENDS Integers, Sequences, FiniteSets, TLC

VARIABLES
    servers,      \* the servers table: stored link -> row
    now,          \* the local wall clock, in hours
    max_per_loc,  \* config: database.max_servers_per_location
    last,         \* the last call: its name, its input, what it returned
    seen,         \* history: link -> lowest delay of its passing results, 0 if none
    group_progress, \* the group_progress table: group_id -> last_message_id
    committed,    \* the servers table as another connection reads it
    txn,          \* the transaction of the connection: active, the table at
                  \* BEGIN, the rows applied, the insert a DELETE waits for
    tasks,        \* concurrent save_latency_test_results calls: where each
                  \* is, and the connection it runs on
    conns,        \* the connections of those calls: transaction, snapshot,
                  \* write lock
    run,          \* Pipeline.run: where it is, the shutdown event, what it
                  \* raised, what run_test returned
    child         \* the xray-knife child process of run_test

txn_vars == <<committed, txn>>

two_vars == <<tasks, conns>>

run_vars == <<run, child>>

(* The state besides the servers table, its clock and its history *)
ext == <<group_progress, txn_vars, two_vars, run_vars>>

vars == <<servers, now, max_per_loc, last, seen, ext>>

----------------------------------------------------------------------------
(* Bounds of the model *)

MaxTime == 1
MaxDelay == 2
MaxRetryCount == 2
MaxCap == 2
SchedMaxTime == 2
MaxWindow == 1
MaxZoneOffset == 1
MaxLinks == 2
MaxMessageId == 2
MaxBatch == 2
MaxOutput == 1

Links == {"A", "B", "C"}
Locations == {"US", "DE"}
Delays == 1..MaxDelay

(* The links whose measurement may fail *)
FailingLinks == {"A"}

(* Speed measurements: download and upload, in Mbps; thresholds and the    *)
(* numbers of candidates per location the configuration may hold           *)
Downloads == {3, 9}
Uploads == {1}
MinDownloads == {0, 6}
CandidatesPerLoc == {1, 2}

(* retest_window_hours and max_retries the configuration may hold; the     *)
(* offsets of the local clock from UTC; the proxy selectors                *)
Windows == 0..MaxWindow
RetryLimits == 1..MaxRetryCount
ZoneOffsets == (0 - MaxZoneOffset)..MaxZoneOffset
Selectors == {"speed_passed", "latency_passed"}
Groups == {"g1"}
MessageIds == 1..MaxMessageId

(* SQL NULL of the numeric and of the text columns.  SQLite orders NULL    *)
(* below every value, as NullNum is below every delay, speed and time.     *)
NullNum == 0 - 1
NullText == "NULL"

----------------------------------------------------------------------------
(* Result rows of the measurement tool, as csv.DictReader yields them *)

PassedResults(links, locs) ==
    [link : links, status : {"passed"}, delay : Delays, location : locs]

FailedResults(links) ==
    [link : links, status : {"failed"}, delay : {0}, location : {""}]

----------------------------------------------------------------------------
(* The servers table *)

NoServers == [l \in {} |-> 0]

Delete(s, l) == [x \in DOMAIN s \ {l} |-> s[x]]

Put(s, l, row) == [x \in DOMAIN s \cup {l} |-> IF x = l THEN row ELSE s[x]]

(* NonFailedIn with status = 'latency_passed' in place of status != 'failed' *)
NonFailedIn_OnlyLatencyPassed(s, loc) ==
    {l \in DOMAIN s : s[l].location = loc /\ s[l].status = "latency_passed"}

(* WHERE location = ? AND status != 'failed' *)
NonFailedIn(s, loc) ==
    {l \in DOMAIN s : s[l].location = loc /\ s[l].status # "failed"}

(* WorstServers with the tie broken by the newest last_tested *)
WorstServers_NewestFirst(s, loc) ==
    {w \in NonFailedIn(s, loc) :
        \A o \in NonFailedIn(s, loc) :
            \/ s[w].delay > s[o].delay
            \/ s[w].delay = s[o].delay /\ s[w].last_tested >= s[o].last_tested}

(* ORDER BY delay DESC, last_tested ASC LIMIT 1: the rows that may come    *)
(* first; rows equal in both keys come in an order SQLite does not fix.    *)
WorstServers(s, loc) ==
    {w \in NonFailedIn(s, loc) :
        \A o \in NonFailedIn(s, loc) :
            \/ s[w].delay > s[o].delay
            \/ s[w].delay = s[o].delay /\ s[w].last_tested <= s[o].last_tested}

(* UpsertPassed with the retry_count=0 of the DO UPDATE clause forgotten *)
UpsertPassed_KeepsRetry(s, res, ts) ==
    IF res.link \in DOMAIN s
    THEN [s EXCEPT ![res.link] =
             [@ EXCEPT !.status = "latency_passed", !.delay = res.delay,
                       !.location = res.location, !.last_tested = ts]]
    ELSE Put(s, res.link,
             [status |-> "latency_passed", delay |-> res.delay,
              location |-> res.location, last_tested |-> ts, retry_count |-> 0,
              download |-> NullNum, upload |-> NullNum,
              speed_tested_at |-> NullNum])

(* INSERT ... ON CONFLICT(link) DO UPDATE of the passed path *)
UpsertPassed(s, res, ts) ==
    IF res.link \in DOMAIN s
    THEN [s EXCEPT ![res.link] =
             [@ EXCEPT !.status = "latency_passed", !.delay = res.delay,
                       !.location = res.location, !.last_tested = ts,
                       !.retry_count = 0]]
    ELSE Put(s, res.link,
             [status |-> "latency_passed", delay |-> res.delay,
              location |-> res.location, last_tested |-> ts, retry_count |-> 0,
              download |-> NullNum, upload |-> NullNum,
              speed_tested_at |-> NullNum])

(* UpsertFailed with retry_count set to 1 instead of incremented *)
UpsertFailed_NoIncrement(s, res, ts) ==
    Put(s, res.link,
        IF res.link \in DOMAIN s
        THEN [s[res.link] EXCEPT !.status = "failed", !.last_tested = ts,
                                 !.retry_count = 1]
        ELSE [status |-> "failed", delay |-> NullNum, location |-> NullText,
              last_tested |-> ts, retry_count |-> 1, download |-> NullNum,
              upload |-> NullNum, speed_tested_at |-> NullNum])

(* UpsertFailed leaving last_tested of a stored row as it was *)
UpsertFailed_KeepsStamp(s, res, ts) ==
    IF res.link \in DOMAIN s
    THEN [s EXCEPT ![res.link] =
             [@ EXCEPT !.status = "failed", !.retry_count = @ + 1]]
    ELSE Put(s, res.link,
             [status |-> "failed", delay |-> NullNum, location |-> NullText,
              last_tested |-> ts, retry_count |-> 1, download |-> NullNum,
              upload |-> NullNum, speed_tested_at |-> NullNum])

(* INSERT ... ON CONFLICT(link) DO UPDATE of the failed path *)
UpsertFailed(s, res, ts) ==
    IF res.link \in DOMAIN s
    THEN [s EXCEPT ![res.link] =
             [@ EXCEPT !.status = "failed", !.last_tested = ts,
                       !.retry_count = @ + 1]]
    ELSE Put(s, res.link,
             [status |-> "failed", delay |-> NullNum, location |-> NullText,
              last_tested |-> ts, retry_count |-> 1, download |-> NullNum,
              upload |-> NullNum, speed_tested_at |-> NullNum])

(* What a row handler leaves: the table, and the path it took *)
Outcome(s, res, path, victim, pre) ==
    [servers |-> s, res |-> res, path |-> path, victim |-> victim,
     prev_retry |-> IF res.link \in DOMAIN pre THEN pre[res.link].retry_count ELSE 0]

(* handle_passed_server with new_delay > worst in place of >= *)
handle_passed_server_EvictsOnTie(s, res, max_loc, ts) ==
    IF res.location # "" /\ res.location # NullText
    THEN LET loc_count == Cardinality(NonFailedIn(s, res.location))
             worst == WorstServers(s, res.location)
         IN  IF loc_count >= max_loc
             THEN IF worst = {}
                  THEN {Outcome(s, res, "discarded", "none", s)}
                  ELSE {IF res.delay > s[w].delay
                        THEN Outcome(s, res, "discarded", "none", s)
                        ELSE Outcome(UpsertPassed(Delete(s, w), res, ts),
                                     res, "evicted", w, s) : w \in worst}
             ELSE {Outcome(UpsertPassed(s, res, ts), res, "stored", "none", s)}
    ELSE {Outcome(UpsertPassed(s, res, ts), res, "stored", "none", s)}

(* handle_passed_server applying the capacity rule to a missing or empty   *)
(* location as to any other                                                *)
handle_passed_server_CapsNoLocation(s, res, max_loc, ts) ==
    LET loc_count == Cardinality(NonFailedIn(s, res.location))
        worst == WorstServers(s, res.location)
    IN  IF loc_count >= max_loc
        THEN IF worst = {}
             THEN {Outcome(s, res, "discarded", "none", s)}
             ELSE {IF res.delay >= s[w].delay
                   THEN Outcome(s, res, "discarded", "none", s)
                   ELSE Outcome(UpsertPassed(Delete(s, w), res, ts),
                                res, "evicted", w, s) : w \in worst}
        ELSE {Outcome(UpsertPassed(s, res, ts), res, "stored", "none", s)}

(* handle_passed_server taking a location one short of the cap as full *)
handle_passed_server_FullOneEarly(s, res, max_loc, ts) ==
    IF res.location # "" /\ res.location # NullText
    THEN LET loc_count == Cardinality(NonFailedIn(s, res.location))
             worst == WorstServers(s, res.location)
         IN  IF loc_count + 1 >= max_loc
             THEN IF worst = {}
                  THEN {Outcome(s, res, "discarded", "none", s)}
                  ELSE {IF res.delay >= s[w].delay
                        THEN Outcome(s, res, "discarded", "none", s)
                        ELSE Outcome(UpsertPassed(Delete(s, w), res, ts),
                                     res, "evicted", w, s) : w \in worst}
             ELSE {Outcome(UpsertPassed(s, res, ts), res, "stored", "none", s)}
    ELSE {Outcome(UpsertPassed(s, res, ts), res, "stored", "none", s)}

handle_passed_server(s, res, max_loc, ts) ==
    IF res.location # "" /\ res.location # NullText
    THEN LET loc_count == Cardinality(NonFailedIn(s, res.location))
             worst == WorstServers(s, res.location)
         IN  IF loc_count >= max_loc
             THEN IF worst = {}
                  THEN {Outcome(s, res, "discarded", "none", s)}
                  ELSE {IF res.delay >= s[w].delay
                        THEN Outcome(s, res, "discarded", "none", s)
                        ELSE Outcome(UpsertPassed(Delete(s, w), res, ts),
                                     res, "evicted", w, s) : w \in worst}
             ELSE {Outcome(UpsertPassed(s, res, ts), res, "stored", "none", s)}
    ELSE {Outcome(UpsertPassed(s, res, ts), res, "stored", "none", s)}

(* handle_failed_server dropping the row of a link that failed *)
handle_failed_server_DropsRow(s, res, ts) ==
    {Outcome(Delete(s, res.link), res, "failed", "none", s)}

handle_failed_server(s, res, ts) ==
    {Outcome(UpsertFailed(s, res, ts), res, "failed", "none", s)}

(* The body of the loop of save_latency_test_results *)
handle_result(s, res, max_loc, ts) ==
    IF res.status = "passed"
    THEN handle_passed_server(s, res, max_loc, ts)
    ELSE handle_failed_server(s, res, ts)

(* int(res.get('delay', 0)) raises ValueError on a delay that is not a     *)
(* number; NotANumber stands for such a value of the delay column          *)
NotANumber == 0 - 2

(* The rows of a batch, the malformed ones included: the link may be       *)
(* missing (NullText), the status may be missing (NullText) or unknown and *)
(* the delay may be text that is not a number                              *)
AnyResults(links, locs) ==
    [link : links \cup {NullText}, status : {"passed", "failed", "unknown", NullText},
     delay : Delays \cup {NotANumber}, location : locs]

(* What one row of the loop leaves: the table, or the exception it raised  *)
RowDone(s, path) == [raised |-> "none", servers |-> s, path |-> path]

RowRaised(s, exc) == [raised |-> exc, servers |-> s, path |-> "raised"]

(* The body of the loop of save_latency_test_results on any row: int()     *)
(* raises before the table is read, res['link'] raises at the upsert, so   *)
(* a passed row without a link that is discarded raises nothing            *)
ingest_row(s, res, max_loc, ts) ==
    IF res.status = "passed"
    THEN IF res.delay = NotANumber
         THEN {RowRaised(s, "ValueError")}
         ELSE {IF o.path # "discarded" /\ res.link = NullText
               THEN RowRaised(s, "KeyError")
               ELSE RowDone(o.servers, o.path) :
                   o \in handle_passed_server(s, res, max_loc, ts)}
    ELSE IF res.link = NullText
         THEN {RowRaised(s, "KeyError")}
         ELSE {RowDone(o.servers, o.path) : o \in handle_failed_server(s, res, ts)}

----------------------------------------------------------------------------
(* Ordered queries *)

Range(q) == {q[i] : i \in DOMAIN q}

Min(a, b) == IF a < b THEN a ELSE b

(* a sorts strictly before b under ORDER BY k1 ASC, k2 ASC, ... *)
LexLess(a, b) ==
    \E i \in DOMAIN a :
        /\ a[i] < b[i]
        /\ \A j \in 1..(i - 1) : a[j] = b[j]

(* SELECT ... ORDER BY key LIMIT n over the rows S: every list the query   *)
(* may return; rows with equal keys come in an order SQLite does not fix.  *)
TopSeqs(S, n, key) ==
    {q \in [1..Min(n, Cardinality(S)) -> S] :
        /\ \A i, j \in DOMAIN q : i < j =>
               (q[i] # q[j] /\ ~LexLess(key[q[j]], key[q[i]]))
        /\ \A x \in S \ Range(q) : \A i \in DOMAIN q : ~LexLess(key[x], key[q[i]])}

----------------------------------------------------------------------------
(* The speed stage *)

(* WHERE status = 'latency_passed' AND location IS NOT NULL AND location != '' *)
SpeedEligible(s) ==
    {l \in DOMAIN s :
        /\ s[l].status = "latency_passed"
        /\ s[l].location # NullText
        /\ s[l].location # ""}

(* get_servers_for_speedtest with ORDER BY delay DESC *)
get_servers_for_speedtest_SlowestFirst(s, k) ==
    LET locs == {s[l].location : l \in SpeedEligible(s)}
        rows(loc) == {l \in SpeedEligible(s) : s[l].location = loc}
        lists(loc) == TopSeqs(rows(loc), k, [l \in rows(loc) |-> <<0 - s[l].delay>>])
    IN  {c \in [locs -> UNION {lists(loc) : loc \in locs}] :
            \A loc \in locs : c[loc] \in lists(loc)}

(* location -> list of links: ROW_NUMBER() OVER(PARTITION BY location      *)
(* ORDER BY delay ASC) <= k.  Every mapping the query may return.          *)
get_servers_for_speedtest(s, k) ==
    LET locs == {s[l].location : l \in SpeedEligible(s)}
        rows(loc) == {l \in SpeedEligible(s) : s[l].location = loc}
        lists(loc) == TopSeqs(rows(loc), k, [l \in rows(loc) |-> <<s[l].delay>>])
    IN  {c \in [locs -> UNION {lists(loc) : loc \in locs}] :
            \A loc \in locs : c[loc] \in lists(loc)}

(* save_speed_test_result as an INSERT OR REPLACE *)
save_speed_test_result_Upserts(s, link, result, ts) ==
    Put(s, link,
        [status |-> "speed_passed", delay |-> NullNum, location |-> NullText,
         last_tested |-> NullNum, retry_count |-> 0, download |-> result.download,
         upload |-> result.upload, speed_tested_at |-> ts])

(* UPDATE servers SET status = 'speed_passed', ... WHERE link = ? *)
save_speed_test_result(s, link, result, ts) ==
    IF link \in DOMAIN s
    THEN [s EXCEPT ![link] =
             [@ EXCEPT !.status = "speed_passed", !.download = result.download,
                       !.upload = result.upload, !.speed_tested_at = ts]]
    ELSE s

(* RecordSpeeds recording a zero speed for a candidate without a result *)
RECURSIVE RecordSpeeds_MarksUnmeasured(_, _, _, _)
RecordSpeeds_MarksUnmeasured(s, cands, results_map, ts) ==
    IF cands = <<>> THEN s
    ELSE RecordSpeeds_MarksUnmeasured(
             save_speed_test_result(s, Head(cands),
                                    IF Head(cands) \in DOMAIN results_map
                                    THEN results_map[Head(cands)]
                                    ELSE [download |-> 0, upload |-> 0], ts),
             Tail(cands), results_map, ts)

(* RecordSpeeds leaving the loop after the first recording *)
RecordSpeeds_FirstOnly(s, cands, results_map, ts) ==
    LET measured == {i \in DOMAIN cands : cands[i] \in DOMAIN results_map}
    IN  IF measured = {} THEN s
        ELSE LET i == CHOOSE j \in measured : \A m \in measured : j <= m
             IN  save_speed_test_result(s, cands[i], results_map[cands[i]], ts)

(* The inner loop of _perform_selective_speed_tests over one location's    *)
(* candidates: the table after the recordings *)
RECURSIVE RecordSpeeds(_, _, _, _)
RecordSpeeds(s, cands, results_map, ts) ==
    IF cands = <<>> THEN s
    ELSE RecordSpeeds(IF Head(cands) \in DOMAIN results_map
                      THEN save_speed_test_result(s, Head(cands),
                                                  results_map[Head(cands)], ts)
                      ELSE s,
                      Tail(cands), results_map, ts)

(* BestForLoc with the min_download_mbps test left out *)
RECURSIVE BestForLoc_NoThreshold(_, _, _, _)
BestForLoc_NoThreshold(cands, results_map, min_mbps, best) ==
    IF cands = <<>> THEN best
    ELSE LET link == Head(cands)
         IN  IF link \notin DOMAIN results_map
             THEN BestForLoc_NoThreshold(Tail(cands), results_map, min_mbps, best)
             ELSE IF best = "none"
                     \/ results_map[link].download > results_map[best].download
             THEN BestForLoc_NoThreshold(Tail(cands), results_map, min_mbps, link)
             ELSE BestForLoc_NoThreshold(Tail(cands), results_map, min_mbps, best)

(* BestForLoc keeping the first candidate that meets the threshold *)
BestForLoc_FirstQualifying(cands, results_map, min_mbps, best) ==
    LET ok == {i \in DOMAIN cands :
                  /\ cands[i] \in DOMAIN results_map
                  /\ results_map[cands[i]].download >= min_mbps}
    IN  IF ok = {} THEN best
        ELSE cands[CHOOSE i \in ok : \A j \in ok : i <= j]

(* The same loop: best_for_loc, "none" for None *)
RECURSIVE BestForLoc(_, _, _, _)
BestForLoc(cands, results_map, min_mbps, best) ==
    IF cands = <<>> THEN best
    ELSE LET link == Head(cands)
         IN  IF link \notin DOMAIN results_map
             THEN BestForLoc(Tail(cands), results_map, min_mbps, best)
             ELSE IF results_map[link].download < min_mbps
             THEN BestForLoc(Tail(cands), results_map, min_mbps, best)
             ELSE IF best = "none"
                     \/ results_map[link].download > results_map[best].download
             THEN BestForLoc(Tail(cands), results_map, min_mbps, link)
             ELSE BestForLoc(Tail(cands), results_map, min_mbps, best)

(* The outer loop over candidates.items() *)
RECURSIVE RecordAll(_, _, _, _, _)
RecordAll(s, candidates, locs, results_map, ts) ==
    IF locs = {} THEN s
    ELSE LET loc == CHOOSE x \in locs : TRUE
         IN  RecordAll(RecordSpeeds(s, candidates[loc], results_map, ts),
                       candidates, locs \ {loc}, results_map, ts)

(* The loops up to the first candidate with a passed result, recorded      *)
RECURSIVE RecordFirst(_, _, _, _, _)
RecordFirst(s, candidates, locs, results_map, ts) ==
    IF locs = {} THEN s
    ELSE LET loc == CHOOSE x \in locs : TRUE
             at == {i \in DOMAIN candidates[loc] : candidates[loc][i] \in DOMAIN results_map}
             first == candidates[loc][CHOOSE i \in at : \A j \in at : i <= j]
         IN  IF at = {}
             THEN RecordFirst(s, candidates, locs \ {loc}, results_map, ts)
             ELSE save_speed_test_result(s, first, results_map[first], ts)

(* best_servers: location -> link *)
BestServers(candidates, results_map, min_mbps) ==
    LET best(loc) == BestForLoc(candidates[loc], results_map, min_mbps, "none")
    IN  [loc \in {x \in DOMAIN candidates : best(x) # "none"} |-> best(loc)]

CandidateLinks(candidates) ==
    UNION {Range(candidates[loc]) : loc \in DOMAIN candidates}

(* results_map: the passed rows of the speed run, by link *)
SpeedResultMaps(links, downloads) ==
    UNION {[m -> [download : downloads, upload : Uploads]] : m \in SUBSET links}

----------------------------------------------------------------------------
(* The scheduler query.  utcnow is the reading of datetime.utcnow(); the   *)
(* stored last_tested are readings of datetime.now().                      *)
get_links_to_test(s, new_links, retest_window_hours, max_retries, utcnow) ==
    LET retest_threshold == utcnow - retest_window_hours
    IN  new_links \cup
        {l \in DOMAIN s :
            \/ s[l].status = "failed" /\ s[l].retry_count < max_retries
            \/ s[l].last_tested = NullNum
            \/ s[l].last_tested < retest_threshold}

----------------------------------------------------------------------------
(* The proxy selector *)

IsNull(x) == IF x = NullNum THEN 1 ELSE 0

(* get_proxy_candidates with the fallback to latency_passed left out *)
get_proxy_candidates_NoFallback(s, selector, max_links) ==
    LET sp == {l \in DOMAIN s : s[l].status = "speed_passed"}
        lp == {l \in DOMAIN s : s[l].status = "latency_passed"}
        spkey == [l \in sp |-> <<IsNull(s[l].download), 0 - s[l].download,
                                 IsNull(s[l].speed_tested_at),
                                 0 - s[l].speed_tested_at>>]
        lpkey == [l \in lp |-> <<IsNull(s[l].delay), s[l].delay,
                                 IsNull(s[l].last_tested), 0 - s[l].last_tested>>]
    IN  IF selector = "speed_passed"
        THEN TopSeqs(sp, max_links, spkey)
        ELSE TopSeqs(lp, max_links, lpkey)

(* get_proxy_candidates breaking ties by the oldest timestamp *)
get_proxy_candidates_OldestFirst(s, selector, max_links) ==
    LET sp == {l \in DOMAIN s : s[l].status = "speed_passed"}
        lp == {l \in DOMAIN s : s[l].status = "latency_passed"}
        spkey == [l \in sp |-> <<IsNull(s[l].download), 0 - s[l].download,
                                 IsNull(s[l].speed_tested_at), s[l].speed_tested_at>>]
        lpkey == [l \in lp |-> <<IsNull(s[l].delay), s[l].delay,
                                 IsNull(s[l].last_tested), s[l].last_tested>>]
        first == IF selector = "speed_passed"
                 THEN TopSeqs(sp, max_links, spkey)
                 ELSE {<<>>}
    IN  UNION {IF links # <<>> THEN {links} ELSE TopSeqs(lp, max_links, lpkey) :
                  links \in first}

(* Every list get_proxy_candidates may return *)
get_proxy_candidates(s, selector, max_links) ==
    LET sp == {l \in DOMAIN s : s[l].status = "speed_passed"}
        lp == {l \in DOMAIN s : s[l].status = "latency_passed"}
        spkey == [l \in sp |-> <<IsNull(s[l].download), 0 - s[l].download,
                                 IsNull(s[l].speed_tested_at),
                                 0 - s[l].speed_tested_at>>]
        lpkey == [l \in lp |-> <<IsNull(s[l].delay), s[l].delay,
                                 IsNull(s[l].last_tested), 0 - s[l].last_tested>>]
        first == IF selector = "speed_passed"
                 THEN TopSeqs(sp, max_links, spkey)
                 ELSE {<<>>}
    IN  UNION {IF links # <<>> THEN {links} ELSE TopSeqs(lp, max_links, lpkey) :
                  links \in first}

----------------------------------------------------------------------------
(* Transactions of the sqlite3 connection *)

NoPending == [path |-> "none"]

NoTxn == [active |-> FALSE, base |-> NoServers, rows |-> 0, pending |-> NoPending]

(* Durable with every statement committed as it runs *)
Durable_Autocommit(c, s, in_transaction) == s

(* What another connection reads once a statement of this connection has   *)
(* left the table s: the committed table c while the transaction is open   *)
Durable(c, s, in_transaction) == IF in_transaction THEN c ELSE s

(* close keeping what the open transaction wrote *)
close_Commits(c, s) == s

(* DatabaseManager.close: the connection is closed without a commit, the   *)
(* open transaction is rolled back and the table is the committed one      *)
close(c, s) == c

(* The configuration file.  Each field of the surface the pipeline reads   *)
(* is present with a usable value ("ok"), absent ("missing"), or present   *)
(* with a value of the wrong kind ("invalid": a number that is not a       *)
(* positive integer, a text where a number is read, an unknown selector).  *)
ConfigFields ==
    {"max_servers_per_location", "retest_window_hours", "max_retries",
     "max_candidates_per_location", "min_download_mbps", "selector", "max_links"}

FieldFaults(f) ==
    IF f \in {"max_retries", "max_candidates_per_location"}
    THEN {"missing"} ELSE {"missing", "invalid"}

DefaultConfig ==
    [max_servers_per_location |-> "ok", retest_window_hours |-> "ok",
     max_retries |-> "ok", max_candidates_per_location |-> "ok",
     min_download_mbps |-> "ok", selector |-> "ok", max_links |-> "ok",
     proxy_enabled |-> TRUE]

(* The files with at most one faulty field, the proxy enabled or not *)
Configs ==
    {[DefaultConfig EXCEPT !.proxy_enabled = e] : e \in BOOLEAN}
    \cup UNION {{[DefaultConfig EXCEPT ![f] = v, !.proxy_enabled = e] :
                    v \in FieldFaults(f), e \in BOOLEAN} : f \in ConfigFields}

(* _validate_config: TRUE when no ConfigError is raised.  The telegram,    *)
(* github_repo and xray_knife sections are taken to be in order; of the    *)
(* surface the checks are those of database.max_servers_per_location and,  *)
(* with internal_proxy.enabled, of selector and max_links.                 *)
validate_config(cfg) ==
    /\ cfg.max_servers_per_location = "ok"
    /\ cfg.proxy_enabled => (cfg.selector = "ok" /\ cfg.max_links = "ok")

(* Pipeline.run and the measurement child of XrayKnifeTester.run_test *)

NoChild == [state |-> "none", code |-> NullNum, rows |-> <<>>, speeds |-> NoServers]

NoRun ==
    [pc |-> "idle", shutdown |-> FALSE, raised |-> "none", entered |-> {},
     io_failed |-> {}, after_io |-> {}, test |-> "none", links |-> {},
     cands |-> NoServers, stage_base |-> NoServers, conn |-> "none",
     proxy |-> "none", halted |-> FALSE, collected |-> {}, config |-> DefaultConfig]

(* InternalProxyManager.stop: a running process is terminated and awaited; *)
(* terminate() of a process that has exited raises ProcessLookupError      *)
stop(proxy) == IF proxy = "running" THEN "stopped" ELSE proxy

(* The values config['logging'] may give cleanup_xray_knife_dir *)
CleanupFlags == {"true", "false", "missing"}

(* Pipeline._cleanup_xray_knife_db: Path.home() is looked up and the       *)
(* .xray-knife directory removed when it exists; the configuration is not  *)
(* read                                                                    *)
cleanup_xray_knife_db(flag, dir_exists) ==
    [home_looked_up |-> TRUE, deleted |-> dir_exists]

(* the finally block of Pipeline.run stopping the proxy only after a run   *)
(* that raised nothing                                                     *)
finally_block_StopsOnSuccessOnly(r) ==
    [r EXCEPT !.pc = "done",
              !.conn = IF @ = "open" THEN "closed" ELSE @,
              !.proxy = IF r.raised = "none" THEN stop(@) ELSE @]

(* The finally block of Pipeline.run: db.close(), then proxy_manager.stop() *)
(* inside try/except Exception when a manager was constructed              *)
finally_block(r) ==
    [r EXCEPT !.pc = "done",
              !.conn = IF @ = "open" THEN "closed" ELSE @,
              !.proxy = stop(@)]

(* run_test_wake leaving the child to itself when the shutdown is seen *)
run_test_wake_Abandons(ch, shutdown) ==
    (IF shutdown
     THEN {[child |-> ch, result |-> "CancelledError"]}
     ELSE {})
    \cup
    (IF ch.state = "exited"
     THEN IF ch.code # 0
          THEN {[child |-> ch, result |-> "ServiceError"]}
          ELSE {[child |-> ch, result |-> "rows"], [child |-> ch, result |-> "OSError"]}
     ELSE {})

(* run_test_wake reading the output file on the way out of an abort *)
run_test_wake_ReadsPartial(ch, shutdown) ==
    (IF shutdown
     THEN IF ch.state = "running"
          THEN {[child |-> [ch EXCEPT !.state = "terminated"], result |-> "rows"]}
          ELSE {[child |-> ch, result |-> "rows"]}
     ELSE {})
    \cup
    (IF ch.state = "exited"
     THEN IF ch.code # 0
          THEN {[child |-> ch, result |-> "ServiceError"]}
          ELSE {[child |-> ch, result |-> "rows"], [child |-> ch, result |-> "OSError"]}
     ELSE {})

(* XrayKnifeTester.run_test once asyncio.wait has returned: with the        *)
(* shutdown task among the done ones the child is terminated and awaited   *)
(* and CancelledError raised (terminate() of a child that has exited may   *)
(* raise ProcessLookupError instead); otherwise the child has exited, and  *)
(* a non-zero code raises ServiceError, a zero code reads the output file, *)
(* which may raise.  With both tasks done either set is possible.          *)
run_test_wake(ch, shutdown) ==
    (IF shutdown
     THEN IF ch.state = "running"
          THEN {[child |-> [ch EXCEPT !.state = "terminated"],
                 result |-> "CancelledError"]}
          ELSE {[child |-> ch, result |-> "CancelledError"],
                [child |-> ch, result |-> "ProcessLookupError"]}
     ELSE {})
    \cup
    (IF ch.state = "exited"
     THEN IF ch.code # 0
          THEN {[child |-> ch, result |-> "ServiceError"]}
          ELSE {[child |-> ch, result |-> "rows"], [child |-> ch, result |-> "OSError"]}
     ELSE {})

(* save_latency_test_results on a connection: the tables the rows can leave *)
RECURSIVE save_latency_test_results(_, _, _, _)
save_latency_test_results(s, rows, max_loc, ts) ==
    IF rows = <<>>
    THEN {s}
    ELSE UNION {save_latency_test_results(o.servers, Tail(rows), max_loc, ts) :
                   o \in handle_result(s, Head(rows), max_loc, ts)}

(* Two calls of save_latency_test_results at once: on the one connection   *)
(* of a DatabaseManager, or each on the connection of its own process      *)
Writers == {1, 2}

ConnIds == {1, 2}

NoConn ==
    [in_txn |-> FALSE, snap |-> FALSE, base |-> NoServers, view |-> NoServers,
     wrote |-> FALSE, fresh |-> FALSE, rows |-> 0, victims |-> {}]

NoConns == [c \in ConnIds |-> NoConn]

NoTasks == [w \in Writers |-> [pc |-> "idle", conn |-> 1]]

(* write_verdict with no check of the snapshot against later commits *)
write_verdict_NoSnapshotCheck(conn, others_locked) ==
    IF conn.wrote THEN "ok"
    ELSE IF others_locked THEN "busy"
    ELSE "ok"

(* What the first writing statement of a transaction meets in WAL mode:    *)
(* the write lock is free and the snapshot is the last commit (ok),        *)
(* another connection holds the write lock (busy), or another connection   *)
(* has committed since the snapshot was taken (stale: the statement raises)*)
write_verdict(conn, others_locked) ==
    IF conn.wrote THEN "ok"
    ELSE IF others_locked THEN "busy"
    ELSE IF conn.snap /\ ~conn.fresh THEN "stale"
    ELSE "ok"

----------------------------------------------------------------------------
Init ==
    /\ servers = NoServers
    /\ now = 0
    /\ max_per_loc \in 1..MaxCap
    /\ last = [op |-> "init"]
    /\ seen = [l \in Links |-> 0]
    /\ group_progress = NoServers
    /\ committed = NoServers
    /\ txn = NoTxn
    /\ tasks = NoTasks
    /\ conns = NoConns
    /\ run = NoRun
    /\ child = NoChild

(* save_latency_test_results, one row of the batch per step: a batch is a  *)
(* run of these steps, and BEGIN and commit change nothing the connection  *)
(* reads.  The row is stamped with the clock reading of its step.          *)
LatencyRow(results, track) ==
    \E res \in results :
        \E o \in handle_result(servers, res, max_per_loc, now) :
            /\ (res.status = "failed" /\ res.link \in DOMAIN servers)
                   => servers[res.link].retry_count < MaxRetryCount
            /\ servers' = o.servers
            /\ last' = [op |-> "latency", res |-> o.res, path |-> o.path,
                        victim |-> o.victim, prev_retry |-> o.prev_retry]
            /\ seen' = IF track /\ res.status = "passed"
                       THEN [seen EXCEPT ![res.link] =
                                IF @ = 0 THEN res.delay ELSE Min(@, res.delay)]
                       ELSE seen
            /\ UNCHANGED <<now, max_per_loc, ext>>

Tick(max_time) ==
    /\ now < max_time
    /\ now' = now + 1
    /\ UNCHANGED <<servers, max_per_loc, last, seen, ext>>

LatencyStage ==
    LatencyRow(PassedResults(Links, {"US"}) \cup PassedResults({"A"}, {"DE"})
                   \cup FailedResults(FailingLinks), FALSE)

ClockTick == Tick(MaxTime)

(* Pipeline._perform_selective_speed_tests, with speed_test.enabled *)
SpeedStage(downloads, mins) ==
    \E k \in CandidatesPerLoc, min_mbps \in mins :
        \E candidates \in get_servers_for_speedtest(servers, k) :
            \E results_map \in SpeedResultMaps(CandidateLinks(candidates), downloads) :
                /\ servers' = RecordAll(servers, candidates, DOMAIN candidates,
                                        results_map, now)
                /\ last' = [op |-> "speed", k |-> k, min_mbps |-> min_mbps,
                            candidates |-> candidates, results |-> results_map,
                            best |-> BestServers(candidates, results_map, min_mbps)]
                /\ UNCHANGED <<now, max_per_loc, seen, ext>>

(* DatabaseManager.get_links_to_test, as Pipeline._perform_latency_tests   *)
(* calls it, in a process whose local clock is `off` hours ahead of UTC.   *)
(* The query reads the clock after every stored row was stamped.           *)
ScheduleWith(links, windows, retry_limits, offsets) ==
    \E new_links \in SUBSET links, w \in windows, mr \in retry_limits, off \in offsets :
        /\ \A l \in DOMAIN servers : servers[l].last_tested < now
        /\ last' = [op |-> "get_links_to_test", new_links |-> new_links,
                    window |-> w, max_retries |-> mr, off |-> off, at |-> now,
                    ret |-> get_links_to_test(servers, new_links, w, mr, now - off)]
        /\ UNCHANGED <<servers, now, max_per_loc, seen, ext>>

Schedule(links) == ScheduleWith(links, Windows, RetryLimits, ZoneOffsets)

(* DatabaseManager.get_proxy_candidates, as Pipeline.run calls it *)
ProxySelectWith(selectors, link_limits) ==
    \E selector \in selectors, max_links \in link_limits :
        \E links \in get_proxy_candidates(servers, selector, max_links) :
            /\ last' = [op |-> "get_proxy_candidates", selector |-> selector,
                        max_links |-> max_links, ret |-> links]
            /\ UNCHANGED <<servers, now, max_per_loc, seen, ext>>

ProxySelect == ProxySelectWith(Selectors, 1..MaxLinks)

(* DatabaseManager.update_group_progress, as Pipeline.run calls it for a   *)
(* group whose collected last message id is not None                       *)
UpdateProgress ==
    \E g \in Groups, m \in MessageIds :
        /\ group_progress' = Put(group_progress, g, m)
        /\ last' = [op |-> "update_group_progress", group_id |-> g, message_id |-> m]
        /\ UNCHANGED <<servers, now, max_per_loc, seen, txn_vars, two_vars, run_vars>>

(* save_latency_test_results, statement by statement: BEGIN *)
TxnBegin ==
    /\ ~txn.active
    /\ txn' = [active |-> TRUE, base |-> committed, rows |-> 0, pending |-> NoPending]
    /\ last' = [op |-> "begin"]
    /\ UNCHANGED <<servers, now, max_per_loc, seen, group_progress, committed,
                   two_vars, run_vars>>

(* a row that does not evict: its upsert, or nothing when it is discarded *)
TxnRow(results) ==
    \E res \in results :
        \E o \in handle_result(servers, res, max_per_loc, now) :
            /\ txn.active /\ txn.pending = NoPending /\ txn.rows < MaxBatch
            /\ o.path # "evicted"
            /\ servers' = o.servers
            /\ committed' = Durable(committed, servers', txn.active)
            /\ txn' = [txn EXCEPT !.rows = @ + 1]
            /\ last' = [op |-> "latency", res |-> o.res, path |-> o.path,
                        victim |-> o.victim, prev_retry |-> o.prev_retry]
            /\ UNCHANGED <<now, max_per_loc, seen, group_progress, two_vars, run_vars>>

(* a row that evicts: the DELETE of the worst row *)
TxnDelete(results) ==
    \E res \in results :
        \E o \in handle_result(servers, res, max_per_loc, now) :
            /\ txn.active /\ txn.pending = NoPending /\ txn.rows < MaxBatch
            /\ o.path = "evicted"
            /\ servers' = Delete(servers, o.victim)
            /\ committed' = Durable(committed, servers', txn.active)
            /\ txn' = [txn EXCEPT !.pending = o]
            /\ last' = [op |-> "delete", res |-> o.res, victim |-> o.victim]
            /\ UNCHANGED <<now, max_per_loc, seen, group_progress, two_vars, run_vars>>

(* a row that evicts: the upsert that follows the DELETE *)
TxnInsert ==
    /\ txn.active /\ txn.pending # NoPending
    /\ servers' = txn.pending.servers
    /\ committed' = Durable(committed, servers', txn.active)
    /\ txn' = [txn EXCEPT !.rows = @ + 1, !.pending = NoPending]
    /\ last' = [op |-> "latency", res |-> txn.pending.res, path |-> txn.pending.path,
                victim |-> txn.pending.victim, prev_retry |-> txn.pending.prev_retry]
    /\ UNCHANGED <<now, max_per_loc, seen, group_progress, two_vars, run_vars>>

(* the commit that follows the loop *)
TxnCommit ==
    /\ txn.active /\ txn.pending = NoPending
    /\ committed' = servers
    /\ txn' = [txn EXCEPT !.active = FALSE]
    /\ last' = [op |-> "commit", rows |-> txn.rows]
    /\ UNCHANGED <<servers, now, max_per_loc, seen, group_progress, two_vars, run_vars>>

(* a statement or a row of the batch raises: the exception leaves          *)
(* save_latency_test_results before its commit and Pipeline.run closes the *)
(* connection in its finally block                                         *)
TxnFail ==
    /\ txn.active
    /\ committed' = close(committed, servers)
    /\ servers' = committed'
    /\ txn' = [txn EXCEPT !.active = FALSE, !.pending = NoPending]
    /\ last' = [op |-> "failed_batch", rows |-> txn.rows, base |-> txn.base,
                mid_row |-> txn.pending # NoPending, lost |-> servers]
    /\ UNCHANGED <<now, max_per_loc, seen, group_progress, two_vars, run_vars>>

(* One row of a batch that may hold malformed rows: the row is applied, or *)
(* its exception leaves save_latency_test_results before the commit and    *)
(* the connection is closed with the transaction open                      *)
BatchRow(results) ==
    \E res \in results :
        \E r \in ingest_row(servers, res, max_per_loc, now) :
            /\ txn.active /\ txn.pending = NoPending /\ txn.rows < MaxBatch
            /\ (res.status # "passed" /\ res.link \in DOMAIN servers)
                   => servers[res.link].retry_count < MaxRetryCount
            /\ IF r.raised = "none"
               THEN /\ servers' = r.servers
                    /\ committed' = Durable(committed, servers', txn.active)
                    /\ txn' = [txn EXCEPT !.rows = @ + 1]
               ELSE /\ committed' = close(committed, servers)
                    /\ servers' = committed'
                    /\ txn' = [txn EXCEPT !.active = FALSE]
            /\ last' = [op |-> "batch_row", res |-> res, raised |-> r.raised,
                        path |-> r.path, before |-> servers, base |-> txn.base,
                        rows |-> txn.rows]
            /\ UNCHANGED <<now, max_per_loc, seen, group_progress, two_vars, run_vars>>

(* The connection of call w, and whether another connection writes *)
ConnOf(w) == tasks[w].conn

OthersLocked(c) == \E d \in ConnIds \ {c} : conns[d].wrote

(* BEGIN of call w: it raises when the connection is inside a transaction  *)
TwoBegin(w) ==
    /\ tasks[w].pc = "idle"
    /\ IF conns[ConnOf(w)].in_txn
       THEN /\ tasks' = [tasks EXCEPT ![w].pc = "error"]
            /\ UNCHANGED conns
       ELSE /\ tasks' = [tasks EXCEPT ![w].pc = "batch"]
            /\ conns' = [conns EXCEPT ![ConnOf(w)] = [NoConn EXCEPT !.in_txn = TRUE]]
    /\ last' = [op |-> "begin", w |-> w]
    /\ UNCHANGED <<servers, now, max_per_loc, seen, group_progress, txn_vars, run_vars>>

(* the first SELECT of the transaction of call w takes its snapshot *)
TwoRead(w) ==
    /\ tasks[w].pc = "batch"
    /\ ~conns[ConnOf(w)].snap
    /\ conns' = [conns EXCEPT ![ConnOf(w)] =
                    [@ EXCEPT !.snap = TRUE, !.base = committed,
                              !.view = committed, !.fresh = TRUE]]
    /\ last' = [op |-> "read", w |-> w]
    /\ UNCHANGED <<servers, now, max_per_loc, seen, group_progress, txn_vars, tasks,
                   run_vars>>

(* a row of call w, decided on the snapshot of its connection; its first   *)
(* writing statement takes the write lock or raises                       *)
TwoRow(w, results) ==
    LET c == ConnOf(w)
        conn == conns[c]
    IN  \E res \in results :
          \E o \in handle_result(conn.view, res, max_per_loc, now) :
            /\ tasks[w].pc = "batch" /\ conn.snap /\ conn.rows < MaxBatch
            /\ IF o.path = "discarded"
               THEN /\ conns' = [conns EXCEPT ![c].rows = @ + 1]
                    /\ UNCHANGED tasks
               ELSE LET verdict == write_verdict(conn, OthersLocked(c))
                        gone == IF /\ o.path = "evicted"
                                   /\ o.victim \in DOMAIN conn.base
                                   /\ conn.base[o.victim] = conn.view[o.victim]
                                THEN {[link |-> o.victim, row |-> conn.base[o.victim]]}
                                ELSE {}
                    IN  IF verdict = "ok"
                        THEN /\ conns' = [conns EXCEPT ![c] =
                                            [@ EXCEPT !.view = o.servers, !.wrote = TRUE,
                                                      !.rows = @ + 1,
                                                      !.victims = @ \cup gone]]
                             /\ UNCHANGED tasks
                        ELSE /\ conns' = [conns EXCEPT ![c] = NoConn]
                             /\ tasks' = [tasks EXCEPT ![w].pc = "error"]
            /\ last' = [op |-> "row", w |-> w, res |-> res, path |-> o.path]
            /\ UNCHANGED <<servers, now, max_per_loc, seen, group_progress, txn_vars,
                           run_vars>>

(* the commit of call w; a connection that holds an older snapshot is no   *)
(* longer at the last commit                                               *)
TwoCommit(w) ==
    LET c == ConnOf(w)
        conn == conns[c]
    IN  /\ tasks[w].pc = "batch"
        /\ committed' = IF conn.wrote THEN conn.view ELSE committed
        /\ servers' = committed'
        /\ conns' = [d \in ConnIds |->
                        IF d = c THEN NoConn
                        ELSE IF conn.wrote THEN [conns[d] EXCEPT !.fresh = FALSE]
                        ELSE conns[d]]
        /\ tasks' = [tasks EXCEPT ![w].pc = "idle"]
        /\ last' = [op |-> "commit_batch", w |-> w, victims |-> conn.victims,
                    before |-> committed]
        /\ UNCHANGED <<now, max_per_loc, seen, group_progress, txn, run_vars>>

(* a later call in place of one that raised *)
TwoAgain(w) ==
    /\ tasks[w].pc = "error"
    /\ tasks' = [tasks EXCEPT ![w].pc = "idle"]
    /\ last' = [op |-> "again", w |-> w]
    /\ UNCHANGED <<servers, now, max_per_loc, seen, group_progress, txn_vars, conns,
                   run_vars>>

(* Pipeline.run, stage by stage, with internal_proxy disabled and          *)
(* speed_test enabled.  An exception leaves the stages for the finally     *)
(* block.                                                                  *)
Raise(r, exc) == [r EXCEPT !.pc = "finally", !.raised = exc]

Enter(r, stage) ==
    [r EXCEPT !.entered = @ \cup {stage},
              !.after_io = IF r.io_failed # {} THEN @ \cup {stage} ELSE @]

IoFailed(r, op) == [r EXCEPT !.io_failed = @ \cup {op}]

(* AfterStage going on to the next stage with the shutdown event set *)
AfterStage_IgnoresShutdown(r, next_pc) ==
    [r EXCEPT !.pc = next_pc, !.test = "none", !.halted = r.shutdown]

(* the return after a stage when the shutdown event is set *)
AfterStage(r, next_pc) ==
    [r EXCEPT !.pc = IF r.shutdown THEN "finally" ELSE next_pc, !.test = "none",
              !.halted = r.shutdown]

RunStart ==
    /\ run.pc \in {"idle", "done"}
    /\ \E ok \in BOOLEAN :
           run' = IF ok
                  THEN [NoRun EXCEPT !.pc = "proxy", !.conn = "open"]
                  ELSE Raise(IoFailed(NoRun, "connect"), "IOError")
    /\ child' = NoChild
    /\ last' = [op |-> "run"]
    /\ UNCHANGED <<servers, now, max_per_loc, seen, group_progress, txn_vars, two_vars>>

(* The internal proxy, when enabled: get_proxy_candidates, and with links  *)
(* the manager is constructed (ServiceError without the binary) and        *)
(* started; an exception of start is logged, whether the process it        *)
(* spawned still runs or has exited                                        *)
RunProxy(selectors, link_limits) ==
    /\ run.pc = "proxy"
    /\ \/ run' = [run EXCEPT !.pc = "progress"]
       \/ run' = Raise(IoFailed(run, "get_proxy_candidates"), "IOError")
       \/ \E selector \in selectors, max_links \in link_limits :
              \E links \in get_proxy_candidates(servers, selector, max_links) :
                  IF links = <<>>
                  THEN run' = [run EXCEPT !.pc = "progress"]
                  ELSE \/ run' = Raise(run, "ServiceError")
                       \/ \E p \in {"running", "exited"} :
                              run' = [run EXCEPT !.pc = "progress", !.proxy = p]
    /\ last' = [op |-> "internal_proxy"]
    /\ UNCHANGED <<servers, now, max_per_loc, seen, group_progress, txn_vars, two_vars,
                   child>>

(* The internal proxy step by step.  get_proxy_candidates, then with links *)
(* InternalProxyManager.start up to create_subprocess_exec                 *)
ProxySpawn(selectors, link_limits) ==
    /\ run.pc = "proxy"
    /\ \E selector \in selectors, max_links \in link_limits :
           \E links \in get_proxy_candidates(servers, selector, max_links) :
               run' = IF links = <<>>
                      THEN [run EXCEPT !.pc = "progress"]
                      ELSE [run EXCEPT !.pc = "proxy_start", !.proxy = "running"]
    /\ last' = [op |-> "proxy_spawn"]
    /\ UNCHANGED <<servers, now, max_per_loc, seen, group_progress, txn_vars, two_vars,
                   child>>

(* asyncio.wait_for(self._ensure_started(), timeout=5): the configuration  *)
(* is returned after a health check that passed; ServiceError is raised,   *)
(* and logged by Pipeline.run, when the process has exited early or the    *)
(* health check returned False; on TimeoutError start goes on to           *)
(* process.communicate()                                                   *)
ProxyEnsureStarted ==
    /\ run.pc = "proxy_start"
    /\ \E outcome \in IF run.proxy = "exited"
                       THEN {"ServiceError", "TimeoutError"}
                       ELSE {"config", "ServiceError", "TimeoutError"} :
           /\ run' = [run EXCEPT !.pc = IF outcome = "TimeoutError"
                                        THEN "proxy_communicate" ELSE "progress"]
           /\ last' = [op |-> "ensure_started", outcome |-> outcome]
    /\ UNCHANGED <<servers, now, max_per_loc, seen, group_progress, txn_vars, two_vars,
                   child>>

(* await self.process.communicate() returns once the process has exited;   *)
(* start then raises ServiceError, which Pipeline.run logs                 *)
ProxyCommunicate ==
    /\ run.pc = "proxy_communicate"
    /\ run.proxy = "exited"
    /\ run' = [run EXCEPT !.pc = "progress"]
    /\ last' = [op |-> "communicate"]
    /\ UNCHANGED <<servers, now, max_per_loc, seen, group_progress, txn_vars, two_vars,
                   child>>

(* the proxy process ends by itself *)
ProxyExits ==
    /\ run.proxy = "running"
    /\ run.pc # "done"
    /\ run' = [run EXCEPT !.proxy = "exited"]
    /\ UNCHANGED <<servers, now, max_per_loc, last, seen, group_progress, txn_vars,
                   two_vars, child>>

(* get_group_progress for each group: an exception leaves last_id None *)
RunReadProgress ==
    /\ run.pc = "progress"
    /\ \E ok \in BOOLEAN :
           run' = [(IF ok THEN run ELSE IoFailed(run, "get_group_progress"))
                      EXCEPT !.pc = "collect"]
    /\ last' = [op |-> "get_group_progress"]
    /\ UNCHANGED <<servers, now, max_per_loc, seen, group_progress, txn_vars, two_vars,
                   child>>

(* Stage 1: collect_links, then the shutdown check *)
RunCollect(links) ==
    /\ run.pc = "collect"
    /\ \E new_links \in SUBSET links :
           run' = [AfterStage(Enter(run, "collect"), "persist") EXCEPT
                      !.links = new_links, !.collected = new_links]
    /\ last' = [op |-> "collect_links"]
    /\ UNCHANGED <<servers, now, max_per_loc, seen, group_progress, txn_vars, two_vars,
                   child>>

(* update_group_progress for each group: an exception is logged *)
RunPersistProgress(message_ids) ==
    /\ run.pc = "persist"
    /\ \E ok \in BOOLEAN, g \in Groups, m \in message_ids :
           /\ run' = [(IF ok THEN run ELSE IoFailed(run, "update_group_progress"))
                         EXCEPT !.pc = "schedule"]
           /\ group_progress' = IF ok THEN Put(group_progress, g, m) ELSE group_progress
    /\ last' = [op |-> "update_group_progress"]
    /\ UNCHANGED <<servers, now, max_per_loc, seen, txn_vars, two_vars, child>>

(* Stage 2: db_cfg['retest_window_hours'] and db_cfg['max_retries'] are    *)
(* read (KeyError when absent), then get_links_to_test, where timedelta    *)
(* raises TypeError for hours that are not a number                        *)
RunSchedule ==
    /\ run.pc = "schedule"
    /\ \E ok \in BOOLEAN :
           run' = IF "missing" \in {run.config.retest_window_hours, run.config.max_retries}
                  THEN Raise(Enter(run, "latency"), "KeyError")
                  ELSE IF run.config.retest_window_hours = "invalid"
                  THEN Raise(Enter(run, "latency"), "TypeError")
                  ELSE IF ok
                  THEN [Enter(run, "latency") EXCEPT
                           !.pc = "latency_test", !.test = "start",
                           !.links = get_links_to_test(servers, run.links, 0, 1, now),
                           !.stage_base = servers]
                  ELSE Raise(IoFailed(Enter(run, "latency"), "get_links_to_test"), "IOError")
    /\ last' = [op |-> "get_links_to_test"]
    /\ UNCHANGED <<servers, now, max_per_loc, seen, group_progress, txn_vars, two_vars,
                   child>>

(* run_test: no links, no child; otherwise the child is started *)
TestStart ==
    /\ run.pc \in {"latency_test", "speed_test"}
    /\ run.test = "start"
    /\ IF run.links = {}
       THEN run' = [run EXCEPT !.test = "returned"] /\ child' = NoChild
       ELSE run' = [run EXCEPT !.test = "waiting"]
            /\ child' = [NoChild EXCEPT !.state = "running"]
    /\ last' = [op |-> "run_test"]
    /\ UNCHANGED <<servers, now, max_per_loc, seen, group_progress, txn_vars, two_vars>>

(* the child writes result rows to its output file *)
ChildWrites(results) ==
    /\ child.state = "running"
    /\ \/ /\ run.pc = "latency_test"
          /\ Len(child.rows) < MaxOutput
          /\ \E res \in results :
                 /\ res.link \in run.links
                 /\ (res.status = "failed" /\ res.link \in DOMAIN servers)
                        => servers[res.link].retry_count < MaxRetryCount
                 /\ child' = [child EXCEPT !.rows = Append(@, res)]
       \/ /\ run.pc = "speed_test"
          /\ DOMAIN child.speeds = {}
          /\ \E m \in SpeedResultMaps(run.links, {3}) :
                 DOMAIN m # {} /\ child' = [child EXCEPT !.speeds = m]
    /\ UNCHANGED <<servers, now, max_per_loc, last, seen, group_progress, txn_vars,
                   two_vars, run>>

ChildExits ==
    /\ child.state = "running"
    /\ \E code \in {0, 1} : child' = [child EXCEPT !.state = "exited", !.code = code]
    /\ UNCHANGED <<servers, now, max_per_loc, last, seen, group_progress, txn_vars,
                   two_vars, run>>

(* SIGINT or SIGTERM: handle_shutdown_signal sets the event *)
ShutdownSignal ==
    /\ run.pc \notin {"idle", "done"}
    /\ ~run.shutdown
    /\ run' = [run EXCEPT !.shutdown = TRUE]
    /\ UNCHANGED <<servers, now, max_per_loc, last, seen, group_progress, txn_vars,
                   two_vars, child>>

(* run_test after asyncio.wait *)
TestWake ==
    /\ run.test = "waiting"
    /\ \E o \in run_test_wake(child, run.shutdown) :
           /\ child' = o.child
           /\ run' = IF o.result = "rows"
                     THEN [run EXCEPT !.test = "returned"]
                     ELSE [Raise(run, o.result) EXCEPT !.test = "raised"]
           /\ last' = [op |-> "run_test_done", result |-> o.result, child |-> child,
                       shutdown |-> run.shutdown]
    /\ UNCHANGED <<servers, now, max_per_loc, seen, group_progress, txn_vars, two_vars>>

(* save_latency_test_results on what run_test returned, then the shutdown  *)
(* check of Pipeline.run                                                   *)
RunSaveLatency ==
    /\ run.pc = "latency_test"
    /\ run.test = "returned"
    /\ \E ok \in BOOLEAN :
           IF ok
           THEN /\ servers' \in save_latency_test_results(servers, child.rows,
                                                           max_per_loc, now)
                /\ committed' = servers'
                /\ run' = AfterStage(run, "speed_select")
           ELSE /\ run' = Raise(IoFailed(run, "save_latency_test_results"), "IOError")
                /\ UNCHANGED <<servers, committed>>
    /\ last' = [op |-> "merge", stage |-> "latency", child |-> child,
                shutdown |-> run.shutdown]
    /\ UNCHANGED <<now, max_per_loc, seen, group_progress, txn, two_vars, child>>

(* Stage 3: config['speed_test']['max_candidates_per_location'] is read   *)
(* (KeyError when absent), then get_servers_for_speedtest                  *)
RunSpeedSelect ==
    /\ run.pc = "speed_select"
    /\ \E ok \in BOOLEAN :
           IF run.config.max_candidates_per_location = "missing"
           THEN run' = Raise(Enter(run, "speed"), "KeyError")
           ELSE IF ok
           THEN \E cands \in get_servers_for_speedtest(servers, 1) :
                    run' = IF DOMAIN cands = {}
                           THEN AfterStage(Enter(run, "speed"), "upload")
                           ELSE [Enter(run, "speed") EXCEPT
                                    !.pc = "speed_test", !.test = "start",
                                    !.cands = cands, !.links = CandidateLinks(cands),
                                    !.stage_base = servers]
           ELSE run' = Raise(IoFailed(Enter(run, "speed"), "get_servers_for_speedtest"),
                             "IOError")
    /\ last' = [op |-> "get_servers_for_speedtest"]
    /\ UNCHANGED <<servers, now, max_per_loc, seen, group_progress, txn_vars, two_vars,
                   child>>

(* save_speed_test_result for the passed rows run_test returned; after    *)
(* the first of them float() of a min_download_mbps that is not a number   *)
(* raises ValueError                                                       *)
RunSaveSpeed ==
    /\ run.pc = "speed_test"
    /\ run.test = "returned"
    /\ \E ok \in BOOLEAN :
           IF /\ ok
              /\ run.config.min_download_mbps = "invalid"
              /\ CandidateLinks(run.cands) \cap DOMAIN child.speeds # {}
           THEN /\ servers' = RecordFirst(servers, run.cands, DOMAIN run.cands,
                                          child.speeds, now)
                /\ committed' = servers'
                /\ run' = Raise(run, "ValueError")
           ELSE IF ok
           THEN /\ servers' = RecordAll(servers, run.cands, DOMAIN run.cands,
                                        child.speeds, now)
                /\ committed' = servers'
                /\ run' = AfterStage(run, "upload")
           ELSE /\ run' = Raise(IoFailed(run, "save_speed_test_result"), "IOError")
                /\ UNCHANGED <<servers, committed>>
    /\ last' = [op |-> "merge", stage |-> "speed", child |-> child,
                shutdown |-> run.shutdown]
    /\ UNCHANGED <<now, max_per_loc, seen, group_progress, txn, two_vars, child>>

(* Stage 4: the upload *)
RunUpload ==
    /\ run.pc = "upload"
    /\ run' = [Enter(run, "upload") EXCEPT !.pc = "finally"]
    /\ last' = [op |-> "upload"]
    /\ UNCHANGED <<servers, now, max_per_loc, seen, group_progress, txn_vars, two_vars,
                   child>>

(* the finally block: the connection is closed and the proxy stopped *)
RunFinally ==
    /\ run.pc = "finally"
    /\ servers' = close(committed, servers)
    /\ committed' = servers'
    /\ run' = finally_block(run)
    /\ \E flag \in CleanupFlags, dir_exists \in BOOLEAN :
           last' = [op |-> "close", proxy |-> run.proxy, conn |-> run.conn,
                    flag |-> flag, dir_exists |-> dir_exists,
                    cleanup |-> cleanup_xray_knife_db(flag, dir_exists)]
    /\ UNCHANGED <<now, max_per_loc, seen, group_progress, txn, two_vars, child>>

Next == LatencyStage \/ ClockTick

Spec == Init /\ [][Next]_vars

(* Latency batches and speed stages, at one clock reading *)
CapLatency ==
    LatencyRow(PassedResults(Links, Locations) \cup FailedResults(FailingLinks), FALSE)

CapSpeed == SpeedStage({3}, {0})

NextCap == CapLatency \/ CapSpeed

SpecCap == Init /\ [][NextCap]_vars

(* Passing latency results and speed stages with thresholds *)
SpeedLatency == LatencyRow(PassedResults({"A", "B"}, Locations), FALSE)

SpeedSelect == SpeedStage(Downloads, MinDownloads)

NextSpeed == SpeedLatency \/ SpeedSelect

SpecSpeed == Init /\ [][NextSpeed]_vars

(* Latency batches, the clock and the scheduler query *)
SchedLatency ==
    LatencyRow(PassedResults({"A", "B"}, {"US"}) \cup FailedResults(FailingLinks), FALSE)

SchedTick == Tick(SchedMaxTime)

SchedQuery == Schedule({"A", "B"})

NextSched == SchedLatency \/ SchedTick \/ SchedQuery

SpecSched == Init /\ [][NextSched]_vars

(* Latency batches, speed stages and the proxy selector *)
ProxyLatency == LatencyRow(PassedResults(Links, Locations), FALSE)

ProxySpeed == SpeedStage({3}, {0})

NextProxy == ProxyLatency \/ ProxySpeed \/ ProxySelect

SpecProxy == Init /\ [][NextProxy]_vars

(* Latency batches, speed stages and the proxy selector over a clock *)
RankLatency == LatencyRow(PassedResults({"A", "B"}, {"US"}), FALSE)

RankTick == Tick(MaxTime)

RankSpeed == SpeedStage(Downloads, {0})

NextRank == RankLatency \/ RankTick \/ RankSpeed \/ ProxySelect

SpecRank == Init /\ [][NextRank]_vars

(* The start of the internal proxy at the head of a run, over the stores   *)
(* earlier runs have left.  The steps of start are taken when they can be; *)
(* nothing makes the proxy process exit.                                   *)
StartLatency ==
    /\ run.pc = "idle"
    /\ LatencyRow(PassedResults({"A", "B"}, {"US"}), FALSE)

StartSpawn == ProxySpawn(Selectors, {1})

NextStart ==
    \/ StartLatency
    \/ RunStart
    \/ StartSpawn
    \/ ProxyEnsureStarted
    \/ ProxyCommunicate
    \/ ProxyExits
    \/ RunReadProgress

SpecStart ==
    /\ Init
    /\ [][NextStart]_vars
    /\ WF_vars(ProxyEnsureStarted)
    /\ WF_vars(ProxyCommunicate)

(* Passing latency results with and without a location *)
NoLocations == {"", NullText}

NoLocLatency == LatencyRow(PassedResults(Links, NoLocations \cup {"US"}), FALSE)

NextNoLoc == NoLocLatency

SpecNoLoc == Init /\ [][NextNoLoc]_vars

(* Passing latency results for one location, with their history *)
BestLatency == LatencyRow(PassedResults(Links, {"US"}), TRUE)

BestTick == Tick(MaxTime)

NextBest == BestLatency \/ BestTick

SpecBest == Init /\ [][NextBest]_vars

(* Latency batches statement by statement, committed or failed *)
TxnResults == PassedResults(Links, {"US"})

TxnRowStep == TxnRow(TxnResults)

TxnDeleteStep == TxnDelete(TxnResults)

NextTxn ==
    \/ TxnBegin
    \/ TxnRowStep
    \/ TxnDeleteStep
    \/ TxnInsert
    \/ TxnCommit
    \/ TxnFail

SpecTxn == Init /\ [][NextTxn]_vars

(* Latency batches with malformed rows among the well-formed ones *)
BatchResults == AnyResults({"A"}, {"US"})

BatchRowStep == BatchRow(BatchResults)

NextBatch ==
    \/ TxnBegin
    \/ BatchRowStep
    \/ TxnCommit

SpecBatch == Init /\ [][NextBatch]_vars

(* Two latency batches at once *)
InitTwo ==
    /\ servers = NoServers
    /\ now = 0
    /\ max_per_loc \in 1..MaxCap
    /\ last = [op |-> "init"]
    /\ seen = [l \in Links |-> 0]
    /\ group_progress = NoServers
    /\ committed = NoServers
    /\ txn = NoTxn
    /\ tasks \in {[w \in Writers |-> [pc |-> "idle", conn |-> 1]],
                  [w \in Writers |-> [pc |-> "idle", conn |-> w]]}
    /\ conns = NoConns
    /\ run = NoRun
    /\ child = NoChild

TwoResults == PassedResults({"A", "B"}, {"US"})

NextTwo ==
    \E w \in Writers :
        \/ TwoBegin(w)
        \/ TwoRead(w)
        \/ TwoRow(w, TwoResults)
        \/ TwoCommit(w)
        \/ TwoAgain(w)

SpecTwo == InitTwo /\ [][NextTwo]_vars

(* Runs of the pipeline, with the measurement child, the shutdown signal   *)
(* and store I/O failures                                                  *)
RunResults == PassedResults({"A"}, {"US"}) \cup FailedResults(FailingLinks)

RunCollectStep == RunCollect({"A"})

RunProxyStep == RunProxy({"latency_passed"}, {1})

RunPersistStep == RunPersistProgress({1})

RunChildWrites == ChildWrites(RunResults)

NextRun ==
    \/ RunStart
    \/ RunProxyStep
    \/ ProxyExits
    \/ RunReadProgress
    \/ RunCollectStep
    \/ RunPersistStep
    \/ RunSchedule
    \/ TestStart
    \/ RunChildWrites
    \/ ChildExits
    \/ ShutdownSignal
    \/ TestWake
    \/ RunSaveLatency
    \/ RunSpeedSelect
    \/ RunSaveSpeed
    \/ RunUpload
    \/ RunFinally

SpecRun == Init /\ [][NextRun]_vars

(* One start of the application: main loads the configuration file and,    *)
(* when it is accepted, runs the pipeline once.                            *)
ConfigMain ==
    /\ run.pc = "idle"
    /\ \E cfg \in Configs :
           run' = IF ~validate_config(cfg)
                  THEN [NoRun EXCEPT !.pc = "done", !.raised = "ConfigError",
                                     !.config = cfg]
                  ELSE [NoRun EXCEPT !.pc = "proxy", !.conn = "open", !.config = cfg]
    /\ child' = NoChild
    /\ last' = [op |-> "main"]
    /\ UNCHANGED <<servers, now, max_per_loc, seen, group_progress, txn_vars, two_vars>>

ConfigProxy ==
    IF run.config.proxy_enabled
    THEN RunProxy(Selectors, {1})
    ELSE /\ run.pc = "proxy"
         /\ run' = [run EXCEPT !.pc = "progress"]
         /\ last' = [op |-> "internal_proxy"]
         /\ UNCHANGED <<servers, now, max_per_loc, seen, group_progress, txn_vars,
                        two_vars, child>>

NextConfig ==
    \/ ConfigMain
    \/ ConfigProxy
    \/ RunReadProgress
    \/ RunCollectStep
    \/ RunPersistStep
    \/ RunSchedule
    \/ TestStart
    \/ RunChildWrites
    \/ ChildExits
    \/ TestWake
    \/ RunSaveLatency
    \/ RunSpeedSelect
    \/ RunSaveSpeed
    \/ RunUpload
    \/ RunFinally

SpecConfig == Init /\ [][NextConfig]_vars

(* Every operation of the store a run performs *)
StoreLatency ==
    LatencyRow(PassedResults({"A", "B"}, {"US"}) \cup FailedResults(FailingLinks), FALSE)

StoreTick == Tick(MaxTime)

StoreSpeed == SpeedStage({3}, {0})

StoreSchedule == ScheduleWith({"A"}, {0}, {1}, {0})

StoreProxy == ProxySelectWith(Selectors, {1})

NextStore ==
    \/ StoreLatency
    \/ StoreTick
    \/ StoreSpeed
    \/ StoreSchedule
    \/ StoreProxy
    \/ UpdateProgress

SpecStore == Init /\ [][NextStore]_vars

----------------------------------------------------------------------------
(* What the claims speak of, stated on the table itself *)

AllPassed == PassedResults(Links, Locations)

AllFailed == FailedResults(FailingLinks)

(* The active pool of a location: its candidates that are not failed *)
ActiveIn(loc) ==
    {l \in DOMAIN servers :
        servers[l].location = loc /\ servers[l].status # "failed"}

PoolFull(loc) == Cardinality(ActiveIn(loc)) >= max_per_loc

PoolMaxDelay(loc) ==
    CHOOSE d \in {servers[l].delay : l \in ActiveIn(loc)} :
        \A l \in ActiveIn(loc) : servers[l].delay <= d

(* The worst of a pool: maximum delay, the oldest last_tested among those *)
PoolWorst(loc) ==
    {w \in ActiveIn(loc) :
        /\ servers[w].delay = PoolMaxDelay(loc)
        /\ \A o \in ActiveIn(loc) :
               servers[o].delay = PoolMaxDelay(loc)
                   => servers[w].last_tested <= servers[o].last_tested}

Ingest(res) == handle_result(servers, res, max_per_loc, now)

IsFailedRow(l) ==
    l \in DOMAIN servers /\ servers[l].status = "failed" /\ servers[l].retry_count >= 1

StoredFresh(s, res) ==
    /\ res.link \in DOMAIN s
    /\ s[res.link].status = "latency_passed"
    /\ s[res.link].retry_count = 0

----------------------------------------------------------------------------
(* C3, as stated: a passing result for a link with one or more failures    *)
(* leaves the link stored with status latency_passed and retry_count 0.    *)
C3_PassAlwaysResets ==
    \A res \in AllPassed :
        IsFailedRow(res.link) => \A o \in Ingest(res) : StoredFresh(o.servers, res)

(* C3, amended: a passing result for a link with one or more failures      *)
(* leaves it stored with status latency_passed and retry_count 0, unless   *)
(* the result is discarded: its location holds cap or more non-failed      *)
(* candidates and its delay is not below the delay of the worst of them.   *)
C3_StoredPassResets ==
    \A res \in AllPassed :
        (/\ IsFailedRow(res.link)
         /\ \/ ~PoolFull(res.location)
            \/ res.delay < PoolMaxDelay(res.location))
            => \A o \in Ingest(res) : StoredFresh(o.servers, res)

C3_Witness ==
    /\ last.op = "latency"
    /\ last.res.status = "passed"
    /\ last.prev_retry >= 1
    /\ StoredFresh(servers, last.res)

----------------------------------------------------------------------------
RECURSIVE FailTimes(_, _, _)
FailTimes(s, res, n) ==
    IF n = 0 THEN s
    ELSE FailTimes((CHOOSE o \in handle_result(s, res, max_per_loc, now) : TRUE).servers,
                   res, n - 1)

(* C4: a failed result sets the link's status to failed and adds exactly 1 *)
(* to its retry_count (1 for a link with no row); n failures in a row of a *)
(* link that was new or at retry_count 0 leave retry_count = n.            *)
C4_FailureIncrements ==
    \A res \in AllFailed :
        /\ \A o \in Ingest(res) :
               /\ res.link \in DOMAIN o.servers
               /\ o.servers[res.link].status = "failed"
               /\ o.servers[res.link].retry_count =
                      IF res.link \in DOMAIN servers
                      THEN servers[res.link].retry_count + 1 ELSE 1
        /\ (res.link \notin DOMAIN servers \/ servers[res.link].retry_count = 0)
               => \A n \in 1..MaxRetryCount :
                      FailTimes(servers, res, n)[res.link].retry_count = n

C4_Witness ==
    /\ last.op = "latency"
    /\ last.path = "failed"
    /\ last.prev_retry >= 1
    /\ servers[last.res.link].status = "failed"
    /\ servers[last.res.link].retry_count = last.prev_retry + 1

----------------------------------------------------------------------------
(* C9: a passing result for a location that holds cap or more non-failed   *)
(* candidates, with a delay strictly below the delay of the pool's worst   *)
(* (maximum delay, oldest last_tested on a tie), deletes exactly that      *)
(* worst row and stores the link with status latency_passed, the new       *)
(* delay, that location and retry_count 0.                                 *)
C9_EvictsWorst ==
    \A res \in AllPassed :
        (PoolFull(res.location) /\ res.delay < PoolMaxDelay(res.location))
            => \A o \in Ingest(res) :
                   /\ \E w \in PoolWorst(res.location) :
                          /\ DOMAIN o.servers = (DOMAIN servers \ {w}) \cup {res.link}
                          /\ \A x \in DOMAIN servers \ {w, res.link} :
                                 o.servers[x] = servers[x]
                   /\ StoredFresh(o.servers, res)
                   /\ o.servers[res.link].delay = res.delay
                   /\ o.servers[res.link].location = res.location

C9_Witness ==
    /\ last.op = "latency"
    /\ last.path = "evicted"
    /\ last.victim # last.res.link
    /\ last.victim \notin DOMAIN servers
    /\ StoredFresh(servers, last.res)
    /\ servers[last.res.link].delay = last.res.delay
    /\ Cardinality(ActiveIn(last.res.location)) = max_per_loc
    /\ max_per_loc > 1

----------------------------------------------------------------------------
(* C10: a passing result for a location that holds cap or more non-failed  *)
(* candidates, with a delay at or above the delay of the pool's worst,     *)
(* leaves the table as it was: no row created, updated or deleted, and the *)
(* link not recorded as failed.                                            *)
C10_DiscardLeavesStore ==
    \A res \in AllPassed :
        (PoolFull(res.location) /\ res.delay >= PoolMaxDelay(res.location))
            => \A o \in Ingest(res) : o.servers = servers

C10_Witness ==
    /\ last.op = "latency"
    /\ last.path = "discarded"
    /\ last.res.link \notin DOMAIN servers
    /\ PoolFull(last.res.location)
    /\ last.res.delay >= PoolMaxDelay(last.res.location)

----------------------------------------------------------------------------
(* C1: after any sequence of latency batches and speed recordings, every   *)
(* location label has at most max_servers_per_location candidates whose    *)
(* status is not failed.                                                   *)
C1_CapPerLocation ==
    \A loc \in Locations : Cardinality(ActiveIn(loc)) <= max_per_loc

C1_Witness ==
    \E loc \in Locations :
        /\ Cardinality(ActiveIn(loc)) = max_per_loc
        /\ \E l \in ActiveIn(loc) : servers[l].status = "speed_passed"
        /\ \E l \in DOMAIN servers :
               servers[l].location = loc /\ servers[l].status = "failed"
        /\ last.op = "latency"
        /\ last.path = "discarded"
        /\ last.res.location = loc

----------------------------------------------------------------------------
(* C2: after any sequence of passing latency results for one location,     *)
(* repeated results for stored links included, the non-failed candidates   *)
(* stored for the location are exactly the min(cap, n) lowest-delay ones   *)
(* among the n distinct links observed (seen: the lowest delay observed of *)
(* each).                                                                  *)
C2_KeepsBestSoFar ==
    LET observed == {l \in Links : seen[l] # 0}
        pool == ActiveIn("US")
    IN  /\ pool \subseteq observed
        /\ Cardinality(pool) = Min(max_per_loc, Cardinality(observed))
        /\ \A s \in pool : \A p \in observed \ pool : seen[s] <= seen[p]

----------------------------------------------------------------------------
(* C5: a stored link with status failed and retry_count >= max_retries is  *)
(* never in the output of get_links_to_test, whatever its last_tested and  *)
(* the retest window, unless it is in new_links.  Stated for a process     *)
(* whose local clock is UTC.                                               *)
C5_DeadLinksExcluded ==
    (last.op = "get_links_to_test" /\ last.off = 0)
        => \A l \in DOMAIN servers :
               (/\ servers[l].status = "failed"
                /\ servers[l].retry_count >= last.max_retries
                /\ l \notin last.new_links)
                   => l \notin last.ret

----------------------------------------------------------------------------
(* C6: a stored candidate whose last_tested is older than now minus        *)
(* retest_window_hours is in the output of get_links_to_test, and one      *)
(* whose last_tested is within the window is not, unless it is in          *)
(* new_links.  The second half is stated for the candidates the retry rule *)
(* (failed, retry_count < max_retries) does not select.                    *)
(* last.at is the local clock reading of the call.                         *)
C6_StaleIffScheduled ==
    last.op = "get_links_to_test"
        => \A l \in DOMAIN servers :
               /\ servers[l].last_tested < last.at - last.window => l \in last.ret
               /\ (/\ servers[l].last_tested >= last.at - last.window
                   /\ l \notin last.new_links
                   /\ ~(servers[l].status = "failed"
                        /\ servers[l].retry_count < last.max_retries))
                      => l \notin last.ret

----------------------------------------------------------------------------
(* C7: with min_download_mbps nonzero, the speed stage never maps a        *)
(* location to a candidate whose measured download is below the threshold, *)
(* even when that candidate has the highest download measured there.       *)
C7_BestMeetsThreshold ==
    (last.op = "speed" /\ last.min_mbps # 0)
        => \A loc \in DOMAIN last.best :
               /\ last.best[loc] \in Range(last.candidates[loc]) \cap DOMAIN last.results
               /\ last.results[last.best[loc]].download >= last.min_mbps
               /\ servers[last.best[loc]].download >= last.min_mbps

C7_Witness ==
    /\ last.op = "speed"
    /\ last.min_mbps # 0
    /\ \E loc \in DOMAIN last.candidates :
           /\ loc \notin DOMAIN last.best
           /\ \E l \in Range(last.candidates[loc]) \cap DOMAIN last.results :
                  /\ last.results[l].download < last.min_mbps
                  /\ servers[l].download = last.results[l].download
                  /\ \A o \in Range(last.candidates[loc]) \cap DOMAIN last.results :
                         last.results[o].download <= last.results[l].download
    /\ \E loc \in DOMAIN last.best : TRUE

----------------------------------------------------------------------------
SpeedPassedRows == {l \in DOMAIN servers : servers[l].status = "speed_passed"}

LatencyPassedRows == {l \in DOMAIN servers : servers[l].status = "latency_passed"}

(* links is the latency_passed ranking: up to n links by ascending delay *)
IsLatencyRanking(links, n) ==
    /\ Len(links) = Min(n, Cardinality(LatencyPassedRows))
    /\ Range(links) \subseteq LatencyPassedRows
    /\ \A i, j \in DOMAIN links : i < j =>
           (links[i] # links[j] /\ servers[links[i]].delay <= servers[links[j]].delay)
    /\ \A x \in LatencyPassedRows \ Range(links) : \A i \in DOMAIN links :
           servers[links[i]].delay <= servers[x].delay

ProxyBoundAndFallback ==
    /\ Len(last.ret) <= last.max_links
    /\ (last.selector = "speed_passed" /\ SpeedPassedRows = {})
           => IsLatencyRanking(last.ret, last.max_links)

(* C8, as stated: get_proxy_candidates returns at most max_links links;    *)
(* with selector speed_passed and no speed_passed row it returns the       *)
(* latency_passed ranking; the result is empty only when neither class has *)
(* a candidate.                                                            *)
C8_EmptyOnlyIfNeitherClass ==
    last.op = "get_proxy_candidates"
        => /\ ProxyBoundAndFallback
           /\ last.ret = <<>> => (SpeedPassedRows = {} /\ LatencyPassedRows = {})

(* C8, amended: at most max_links links; the latency_passed ranking when   *)
(* the selector is speed_passed and no speed_passed row exists; the result *)
(* is empty only when there is no latency_passed candidate and, with       *)
(* selector speed_passed, no speed_passed candidate either.                *)
C8_EmptyOnlyIfNoneSelectable ==
    last.op = "get_proxy_candidates"
        => /\ ProxyBoundAndFallback
           /\ last.ret = <<>> =>
                  /\ LatencyPassedRows = {}
                  /\ last.selector = "speed_passed" => SpeedPassedRows = {}

C8_Witness ==
    /\ last.op = "get_proxy_candidates"
    /\ last.selector = "speed_passed"
    /\ SpeedPassedRows = {}
    /\ Cardinality(LatencyPassedRows) > last.max_links
    /\ Len(last.ret) = last.max_links
    /\ last.max_links > 1
    /\ servers[last.ret[1]].delay < servers[last.ret[2]].delay

----------------------------------------------------------------------------
(* C11: a row is removed only by eviction.  A step that removes a row is   *)
(* the ingestion of a passing latency result into a location that holds at *)
(* least max_servers_per_location non-failed rows; the removed row is a    *)
(* non-failed row of that location and the result's delay is strictly      *)
(* below the removed row's delay.  Failure ingestion, speed recording,     *)
(* scheduling, proxy selection and cursor updates remove no row.           *)
IsEvictionOf(l) ==
    /\ last'.op = "latency"
    /\ last'.res.status = "passed"
    /\ last'.path = "evicted"
    /\ last'.victim = l
    /\ Cardinality(NonFailedIn(servers, last'.res.location)) >= max_per_loc
    /\ servers[l].status # "failed"
    /\ servers[l].location = last'.res.location
    /\ last'.res.delay < servers[l].delay

C11_RemovedOnlyByEviction ==
    [][/\ \A l \in DOMAIN servers : l \notin DOMAIN servers' => IsEvictionOf(l)
       /\ (last'.op = "latency" /\ last'.path = "evicted" /\ last' # last)
              => IsEvictionOf(last'.victim)]_vars

C11_Witness ==
    /\ last.op = "latency"
    /\ last.path = "evicted"
    /\ last.victim \notin DOMAIN servers
    /\ servers[last.res.link].retry_count = 0
    /\ last.prev_retry > 0
    /\ DOMAIN group_progress # {}

----------------------------------------------------------------------------
(* C12, as stated: after a latency result, passed or failed, for a link    *)
(* already in the store, the link's stored last_tested is the time of the  *)
(* batch.                                                                  *)
C12_AttemptAlwaysStamps ==
    \A res \in AllPassed \cup AllFailed :
        res.link \in DOMAIN servers
            => \A o \in Ingest(res) :
                   res.link \in DOMAIN o.servers
                       => o.servers[res.link].last_tested = now

(* C12, amended: a failed result, and a passing result that is stored,     *)
(* set the link's last_tested to the time of the batch; a passing result   *)
(* discarded by the capacity rule leaves the row and its last_tested as    *)
(* they were.                                                              *)
C12_StoredAttemptStamps ==
    \A res \in AllPassed \cup AllFailed :
        res.link \in DOMAIN servers
            => \A o \in Ingest(res) :
                   IF o.path = "discarded"
                   THEN o.servers = servers
                   ELSE /\ res.link \in DOMAIN o.servers
                        /\ o.servers[res.link].last_tested = now

C12_Witness ==
    /\ last.op = "latency"
    /\ last.res.status = "failed"
    /\ last.prev_retry > 0
    /\ now > 0
    /\ servers[last.res.link].last_tested = now
    /\ \E l \in DOMAIN servers :
           servers[l].status = "latency_passed" /\ servers[l].last_tested < now

----------------------------------------------------------------------------
CapHolds(s) ==
    \A loc \in Locations : Cardinality(NonFailedIn(s, loc)) <= max_per_loc

(* C13: during a batch ingestion that evicts, a reader on another          *)
(* connection reads the table as it was at BEGIN until the commit and the  *)
(* whole batch after it: never a pool whose evicted row is deleted while   *)
(* the replacement is not yet stored, and never a location above           *)
(* max_servers_per_location.                                               *)
C13_ReaderSeesWholeBatches ==
    /\ txn.active => committed = txn.base
    /\ ~txn.active => committed = servers
    /\ CapHolds(committed)

C13_Witness ==
    /\ txn.active
    /\ txn.pending # NoPending
    /\ txn.rows >= 1
    /\ txn.pending.victim \in DOMAIN committed
    /\ txn.pending.victim \notin DOMAIN servers
    /\ txn.pending.res.link \notin DOMAIN servers
    /\ Cardinality(NonFailedIn(committed, "US")) = max_per_loc

----------------------------------------------------------------------------
(* C14: when a batch fails on some row after earlier rows were applied, a  *)
(* DELETE of an evicted row included, none of the batch's mutations are in *)
(* the durable table once the run has ended: it is the table as it was at  *)
(* BEGIN, within max_servers_per_location in every location.               *)
C14_FailedBatchLeavesNothing ==
    last.op = "failed_batch"
        => /\ committed = last.base
           /\ servers = committed
           /\ ~txn.active
           /\ CapHolds(committed)

C14_Witness ==
    /\ last.op = "failed_batch"
    /\ last.rows >= 1
    /\ last.mid_row
    /\ last.lost # committed
    /\ \E l \in DOMAIN committed : l \notin DOMAIN last.lost
    /\ Cardinality(NonFailedIn(committed, "US")) = max_per_loc

----------------------------------------------------------------------------
(* C15: in every interleaving of two save_latency_test_results calls, each *)
(* eviction a commit makes durable deleted a row that was still in the     *)
(* durable table, so a worst row that two calls both read is the victim of *)
(* at most one committed insertion; no location ends above                 *)
(* max_servers_per_location.                                               *)
C15_OneEvictionPerVictim ==
    /\ CapHolds(committed)
    /\ last.op = "commit_batch"
           => \A v \in last.victims :
                  /\ v.link \in DOMAIN last.before
                  /\ last.before[v.link] = v.row

C15_Witness ==
    /\ last.op = "commit_batch"
    /\ last.victims # {}
    /\ \E d \in ConnIds :
           /\ conns[d].snap
           /\ ~conns[d].fresh
           /\ \A v \in last.victims :
                  v.link \in DOMAIN conns[d].view /\ conns[d].view[v.link] = v.row
           /\ \E res \in TwoResults :
                  \E o \in handle_result(conns[d].view, res, max_per_loc, now) :
                      o.path = "evicted" /\ \E v \in last.victims : o.victim = v.link

----------------------------------------------------------------------------
MeasureAborted == run.test = "raised" /\ run.raised \in {"CancelledError", "ProcessLookupError"}

(* C16: when run_test sees the shutdown signal while it waits on the child *)
(* it returns no result row and the stage merges nothing into the store;   *)
(* rows are returned and merged only from an invocation whose child exited *)
(* on its own with code 0.                                                 *)
C16_AbortYieldsNothing ==
    /\ MeasureAborted => (servers = run.stage_base /\ committed = run.stage_base)
    /\ (last.op = "run_test_done" /\ last.result = "rows")
           => (last.child.state = "exited" /\ last.child.code = 0)
    /\ last.op = "merge"
           => \/ last.child.state = "exited" /\ last.child.code = 0
              \/ last.child = NoChild

C16_Witness ==
    /\ MeasureAborted
    /\ run.pc = "done"
    /\ child.state = "terminated"
    /\ child.rows # <<>>
    /\ "latency" \in run.entered
    /\ servers = run.stage_base

----------------------------------------------------------------------------
(* C17: when the shutdown signal is set while the child runs, run_test     *)
(* terminates the child and has waited for its exit when it raises the     *)
(* abort; on every way out of run_test, return, abort or error, the child  *)
(* is no longer running.                                                   *)
C17_ChildStoppedOnExit ==
    /\ child.state = "running" => run.test = "waiting"
    /\ (last.op = "run_test_done" /\ last.shutdown /\ last.child.state = "running")
           => (child.state = "terminated" /\ last.result = "CancelledError")

C17_Witness ==
    /\ last.op = "run_test_done"
    /\ last.shutdown
    /\ last.child.state = "running"
    /\ child.state = "terminated"
    /\ run.pc = "finally"
    /\ "speed" \in run.entered

----------------------------------------------------------------------------
(* C18: a failure of the measurement process, a non-zero exit code or an   *)
(* unreadable output, in the latency or the speed stage is an empty result *)
(* batch: the stage leaves the store as it was and the run goes on to the  *)
(* next stage instead of ending with the exception.                        *)
C18_MeasureFailureContinues ==
    (last.op = "run_test_done" /\ last.result \in {"ServiceError", "OSError"})
        => /\ servers = run.stage_base
           /\ run.raised = "none"
           /\ run.pc # "finally"

----------------------------------------------------------------------------
(* C19: a malformed result row, one with a missing link, a missing or an   *)
(* unknown status or a delay that is not a number, inside a latency batch  *)
(* is skipped: it changes the row of no link, and the batch goes on, so    *)
(* the well-formed rows before and after it are still committed.           *)
Malformed(res) ==
    \/ res.link = NullText
    \/ res.status \notin {"passed", "failed"}
    \/ res.delay = NotANumber

C19_MalformedRowSkipped ==
    (last.op = "batch_row" /\ Malformed(last.res))
        => /\ last.raised = "none"
           /\ servers = last.before
           /\ txn.active

----------------------------------------------------------------------------
(* C20: a store I/O failure in an operation of the run, the read or the    *)
(* write of a source cursor, the scheduling query, the batch ingest or a   *)
(* speed recording, is fatal: no stage is entered after it.                *)
C20_IoFailureIsFatal == run.after_io = {}

----------------------------------------------------------------------------
----------------------------------------------------------------------------
(* C22: in the speed stage every measured link whose result has status     *)
(* passed is recorded in the store, as speed_passed with its download and  *)
(* its upload, whether or not it meets min_download_mbps and whether or    *)
(* not it is the best of its location.                                     *)
C22_EveryPassedSpeedRecorded ==
    last.op = "speed"
        => \A l \in DOMAIN last.results :
               /\ l \in DOMAIN servers
               /\ servers[l].status = "speed_passed"
               /\ servers[l].download = last.results[l].download
               /\ servers[l].upload = last.results[l].upload
               /\ servers[l].speed_tested_at = now

C22_Witness ==
    /\ last.op = "speed"
    /\ last.min_mbps # 0
    /\ \E loc \in DOMAIN last.best :
           \E l \in (Range(last.candidates[loc]) \cap DOMAIN last.results)
                        \ {last.best[loc]} :
               /\ last.results[l].download < last.min_mbps
               /\ servers[l].status = "speed_passed"
               /\ servers[l].download = last.results[l].download

----------------------------------------------------------------------------
(* C23: get_servers_for_speedtest(k) returns, for each location of the     *)
(* result, at most k links, each of them latency_passed and of that        *)
(* location, and no latency_passed candidate of the location that was left *)
(* out has a strictly lower delay than one that was returned.              *)
LatencyPassedIn(loc) ==
    {l \in DOMAIN servers :
        servers[l].status = "latency_passed" /\ servers[l].location = loc}

C23_FastestPerLocation ==
    \A k \in CandidatesPerLoc :
        \A c \in get_servers_for_speedtest(servers, k) :
            \A loc \in DOMAIN c :
                /\ loc # "" /\ loc # NullText
                /\ Len(c[loc]) <= k
                /\ Cardinality(Range(c[loc])) = Len(c[loc])
                /\ Range(c[loc]) \subseteq LatencyPassedIn(loc)
                /\ \A x \in LatencyPassedIn(loc) \ Range(c[loc]) :
                       \A r \in Range(c[loc]) : servers[x].delay >= servers[r].delay

C23_Witness ==
    /\ last.op = "speed"
    /\ last.k = 1
    /\ \E loc \in DOMAIN last.candidates :
           \E x \in LatencyPassedIn(loc) \ Range(last.candidates[loc]) :
               \A r \in Range(last.candidates[loc]) :
                   /\ servers[r].location = loc
                   /\ servers[x].delay > servers[r].delay

----------------------------------------------------------------------------
(* C24: save_speed_test_result is an idempotent update of an existing row: *)
(* applied twice with the same result it leaves the status, the download   *)
(* and the upload it leaves when applied once, it changes no row but the   *)
(* row of its link, and for a link without a row it creates none.          *)
SpeedResults == [download : Downloads, upload : Uploads]

C24_SpeedRecordIdempotent ==
    \A l \in Links, result \in SpeedResults, t1 \in 0..MaxTime, t2 \in 0..MaxTime :
        LET once == save_speed_test_result(servers, l, result, t1)
            twice == save_speed_test_result(once, l, result, t2)
        IN  /\ DOMAIN once = DOMAIN servers /\ DOMAIN twice = DOMAIN servers
            /\ \A x \in DOMAIN servers \ {l} : once[x] = servers[x] /\ twice[x] = servers[x]
            /\ l \in DOMAIN servers
                   => /\ once[l].status = "speed_passed"
                      /\ once[l].download = result.download
                      /\ once[l].upload = result.upload
                      /\ twice[l].status = once[l].status
                      /\ twice[l].download = once[l].download
                      /\ twice[l].upload = once[l].upload
                      /\ twice[l].delay = servers[l].delay
                      /\ twice[l].location = servers[l].location

C24_Witness ==
    /\ last.op = "speed"
    /\ Cardinality(DOMAIN servers) >= 2
    /\ Links \ DOMAIN servers # {}
    /\ \E l \in DOMAIN last.results :
           /\ servers[l].status = "speed_passed"
           /\ save_speed_test_result(servers, l, last.results[l], now) = servers

----------------------------------------------------------------------------
(* C25: the output of get_links_to_test is exactly the union of the new    *)
(* links, the stored links with status failed and retry_count below        *)
(* max_retries, and the stored links whose last_tested is null or older    *)
(* than now minus the retest window; every new link is in it whatever its  *)
(* stored history.  last.at is the local clock reading of the call, the    *)
(* clock that stamps last_tested.                                          *)
ScheduledByRule(new_links, window, max_retries, at) ==
    new_links \cup
    {l \in DOMAIN servers :
        \/ servers[l].status = "failed" /\ servers[l].retry_count < max_retries
        \/ servers[l].last_tested = NullNum
        \/ servers[l].last_tested < at - window}

C25_OutputIsExactUnion ==
    last.op = "get_links_to_test"
        => last.ret = ScheduledByRule(last.new_links, last.window, last.max_retries,
                                      last.at)

----------------------------------------------------------------------------
(* C26: the cleanup at the end of a run deletes the xray-knife home        *)
(* directory if and only if logging.cleanup_xray_knife_dir is true and the *)
(* directory exists; with the flag false or missing the step returns       *)
(* without looking up the home directory and without deleting anything.    *)
C26_CleanupFollowsFlag ==
    last.op = "close"
        => /\ last.cleanup.deleted <=> (last.flag = "true" /\ last.dir_exists)
           /\ last.flag # "true" => ~last.cleanup.home_looked_up

----------------------------------------------------------------------------
(* C27: ingesting a passing latency result never decreases the number of   *)
(* non-failed candidates of the location of the result; re-testing a link  *)
(* that is an active member of a full pool never removes another member of *)
(* that pool.                                                              *)
C27_PassNeverShrinksPool ==
    \A res \in AllPassed :
        \A o \in Ingest(res) :
            /\ Cardinality(NonFailedIn(o.servers, res.location))
                   >= Cardinality(NonFailedIn(servers, res.location))
            /\ (res.link \in ActiveIn(res.location) /\ PoolFull(res.location))
                   => ActiveIn(res.location) \subseteq DOMAIN o.servers

----------------------------------------------------------------------------
(* C28: a passing latency result for a location that holds fewer than cap  *)
(* non-failed candidates is stored unconditionally: its row is created or  *)
(* updated with status latency_passed, the delay and the location of the   *)
(* result, last_tested = now and retry_count 0, and no row is deleted.     *)
C28_BelowCapAlwaysStored ==
    \A res \in AllPassed :
        ~PoolFull(res.location)
            => \A o \in Ingest(res) :
                   /\ DOMAIN o.servers = DOMAIN servers \cup {res.link}
                   /\ \A x \in DOMAIN servers \ {res.link} : o.servers[x] = servers[x]
                   /\ o.servers[res.link].status = "latency_passed"
                   /\ o.servers[res.link].delay = res.delay
                   /\ o.servers[res.link].location = res.location
                   /\ o.servers[res.link].last_tested = now
                   /\ o.servers[res.link].retry_count = 0

C28_Witness ==
    /\ last.op = "latency"
    /\ last.path = "stored"
    /\ max_per_loc = 2
    /\ Cardinality(ActiveIn(last.res.location)) = 2
    /\ servers[last.res.link].status = "latency_passed"
    /\ servers[last.res.link].last_tested = now
    /\ now > 0
    /\ \E x \in ActiveIn(last.res.location) : servers[x].delay < last.res.delay

----------------------------------------------------------------------------
(* C29: for each location with speed-test candidates the link of the       *)
(* location -> best mapping is one with the maximum download among the     *)
(* measured candidates of the location that passed and whose download is   *)
(* at least min_download_mbps, a threshold of 0 admitting every passed     *)
(* candidate; a location without such a candidate has no entry.            *)
Qualifying(loc) ==
    {l \in Range(last.candidates[loc]) \cap DOMAIN last.results :
        last.results[l].download >= last.min_mbps}

C29_BestIsMaxDownload ==
    last.op = "speed"
        => /\ DOMAIN last.best \subseteq DOMAIN last.candidates
           /\ \A loc \in DOMAIN last.candidates :
                  IF Qualifying(loc) = {}
                  THEN loc \notin DOMAIN last.best
                  ELSE /\ loc \in DOMAIN last.best
                       /\ last.best[loc] \in Qualifying(loc)
                       /\ \A q \in Qualifying(loc) :
                              last.results[last.best[loc]].download
                                  >= last.results[q].download
           /\ last.min_mbps = 0
                  => \A loc \in DOMAIN last.candidates :
                         Qualifying(loc) = Range(last.candidates[loc]) \cap DOMAIN last.results

C29_Witness ==
    /\ last.op = "speed"
    /\ \E loc \in DOMAIN last.best :
           /\ last.candidates[loc][1] # last.best[loc]
           /\ last.candidates[loc][1] \in Qualifying(loc)
           /\ last.results[last.best[loc]].download
                  > last.results[last.candidates[loc][1]].download
    /\ last.min_mbps = 0

----------------------------------------------------------------------------
(* C30: get_proxy_candidates returns links in ranking order: with selector *)
(* speed_passed and at least one speed_passed row, only speed_passed links *)
(* by download descending, ties broken by the most recent speed_tested_at; *)
(* with selector latency_passed or on fallback, only latency_passed links  *)
(* by delay ascending, ties broken by the most recent last_tested.  The    *)
(* two classes are never mixed in one result.                              *)
SpeedOutranks(a, b) ==
    \/ servers[a].download > servers[b].download
    \/ /\ servers[a].download = servers[b].download
       /\ servers[a].speed_tested_at > servers[b].speed_tested_at

LatencyOutranks(a, b) ==
    \/ servers[a].delay < servers[b].delay
    \/ /\ servers[a].delay = servers[b].delay
       /\ servers[a].last_tested > servers[b].last_tested

C30_ProxyRankingOrder ==
    last.op = "get_proxy_candidates"
        => IF last.selector = "speed_passed" /\ SpeedPassedRows # {}
           THEN /\ Range(last.ret) \subseteq SpeedPassedRows
                /\ Len(last.ret) = Min(last.max_links, Cardinality(SpeedPassedRows))
                /\ \A i, j \in DOMAIN last.ret :
                       i < j => (/\ last.ret[i] # last.ret[j]
                                 /\ ~SpeedOutranks(last.ret[j], last.ret[i]))
                /\ \A x \in SpeedPassedRows \ Range(last.ret) :
                       \A i \in DOMAIN last.ret : ~SpeedOutranks(x, last.ret[i])
           ELSE /\ Range(last.ret) \subseteq LatencyPassedRows
                /\ Len(last.ret) = Min(last.max_links, Cardinality(LatencyPassedRows))
                /\ \A i, j \in DOMAIN last.ret :
                       i < j => (/\ last.ret[i] # last.ret[j]
                                 /\ ~LatencyOutranks(last.ret[j], last.ret[i]))
                /\ \A x \in LatencyPassedRows \ Range(last.ret) :
                       \A i \in DOMAIN last.ret : ~LatencyOutranks(x, last.ret[i])

C30_Witness ==
    /\ last.op = "get_proxy_candidates"
    /\ last.selector = "speed_passed"
    /\ Len(last.ret) = 2
    /\ servers[last.ret[1]].status = "speed_passed"
    /\ servers[last.ret[1]].download = servers[last.ret[2]].download
    /\ servers[last.ret[1]].speed_tested_at > servers[last.ret[2]].speed_tested_at

----------------------------------------------------------------------------
(* C31: within one run the stages execute strictly in the order collect,   *)
(* latency-ingest, speed-select, publish, each starting only after the     *)
(* previous one has finished; and once the shutdown signal is found set at *)
(* a stage boundary no later stage starts, so that run writes nothing more *)
(* to the store and uploads nothing.                                       *)
StagePrefixes ==
    {{}, {"collect"}, {"collect", "latency"}, {"collect", "latency", "speed"},
     {"collect", "latency", "speed", "upload"}}

StagesInOrder ==
    /\ run.entered \in StagePrefixes
    /\ run.pc \in {"latency_test", "speed_select"} => run.entered = {"collect", "latency"}
    /\ run.pc = "speed_test" => run.entered = {"collect", "latency", "speed"}
    /\ run.test # "none" => run.pc \in {"latency_test", "speed_test", "finally", "done"}

HaltedRunStaysPut ==
    (run.halted /\ run'.halted)
        => /\ servers' = servers
           /\ group_progress' = group_progress
           /\ run'.entered = run.entered
           /\ run'.pc \in {"finally", "done"}

C31_StagesInOrderAndHalt == []StagesInOrder /\ [][HaltedRunStaysPut]_vars

C31_Witness ==
    /\ run.halted
    /\ run.pc = "done"
    /\ run.entered = {"collect", "latency"}
    /\ run.raised = "none"
    /\ DOMAIN servers # {}

----------------------------------------------------------------------------
(* C32: no collected link is lost behind the source cursor: in a run that  *)
(* persists an advanced cursor for a source, every link collected from the *)
(* source in that run has a row in the store when the run ends, also when  *)
(* the latency stage is cancelled, the measurement process fails or the    *)
(* passing result of the link is discarded.  Stated for the runs in which  *)
(* no store operation fails.                                               *)
CursorPersisted == "latency" \in run.entered /\ run.io_failed = {}

C32_CollectedLinksStored ==
    (run.pc = "done" /\ CursorPersisted) => run.collected \subseteq DOMAIN servers

----------------------------------------------------------------------------
(* C33: ingesting a passing latency result for a link that already has a   *)
(* row leaves the download, the upload and the speed_tested_at of the row  *)
(* unchanged and sets its status to latency_passed, also when the status   *)
(* was speed_passed: a re-verified candidate keeps its speed metrics.      *)
(* Stated for the results that the capacity rule does not discard.         *)
C33_RetestKeepsSpeedMetrics ==
    \A res \in AllPassed :
        res.link \in DOMAIN servers
            => \A o \in Ingest(res) :
                   o.path # "discarded"
                       => /\ res.link \in DOMAIN o.servers
                          /\ o.servers[res.link].status = "latency_passed"
                          /\ o.servers[res.link].download = servers[res.link].download
                          /\ o.servers[res.link].upload = servers[res.link].upload
                          /\ o.servers[res.link].speed_tested_at
                                 = servers[res.link].speed_tested_at

----------------------------------------------------------------------------
(* C34: the speed stage assigns speed_passed only to a row that was        *)
(* latency_passed with a non-empty location when the stage selected it; a  *)
(* selected link whose measurement failed or is missing from the speed     *)
(* results keeps its row unchanged, as does every row not selected.        *)
C34_SpeedPassedOnlyFromSelected ==
    \A k \in CandidatesPerLoc :
        \A cands \in get_servers_for_speedtest(servers, k) :
            \A results_map \in SpeedResultMaps(CandidateLinks(cands), Downloads) :
                LET after == RecordAll(servers, cands, DOMAIN cands, results_map, now)
                IN  /\ DOMAIN after = DOMAIN servers
                    /\ \A l \in DOMAIN servers :
                           IF l \in DOMAIN results_map
                           THEN /\ after[l].status = "speed_passed"
                                /\ servers[l].status = "latency_passed"
                                /\ servers[l].location \notin {"", NullText}
                           ELSE after[l] = servers[l]

C34_Witness ==
    /\ last.op = "speed"
    /\ \E l \in CandidateLinks(last.candidates) \ DOMAIN last.results :
           servers[l].status = "latency_passed" /\ servers[l].download = NullNum
    /\ \E l \in DOMAIN last.results : servers[l].status = "speed_passed"

----------------------------------------------------------------------------
(* C35: a passing latency result whose location is missing or empty is     *)
(* always stored as latency_passed, without a capacity check and without   *)
(* deleting a row, so the number of non-failed candidates without a        *)
(* location is not bounded by max_servers_per_location.                    *)
C35_NoLocationAlwaysStored ==
    \A res \in PassedResults(Links, NoLocations) :
        \A o \in Ingest(res) :
            /\ o.path = "stored"
            /\ DOMAIN o.servers = DOMAIN servers \cup {res.link}
            /\ \A x \in DOMAIN servers \ {res.link} : o.servers[x] = servers[x]
            /\ o.servers[res.link].status = "latency_passed"
            /\ o.servers[res.link].location = res.location
            /\ o.servers[res.link].delay = res.delay

C35_Witness ==
    /\ last.op = "latency"
    /\ last.res.location = ""
    /\ last.path = "stored"
    /\ Cardinality(NonFailedIn(servers, "")) > max_per_loc
    /\ \E x \in NonFailedIn(servers, "") : servers[x].delay < last.res.delay

----------------------------------------------------------------------------
(* C36: InternalProxyManager.start always completes, returning a proxy     *)
(* configuration or raising, also when the proxy process keeps running but *)
(* does not pass its health check before the start timeout; a failed start *)
(* never keeps the run from going on to the collection without a proxy.    *)
C36_StartCompletes ==
    (run.pc = "proxy_start") ~> (run.pc \in {"progress", "collect", "finally"})

----------------------------------------------------------------------------
(* C37: the configuration is validated once at startup, so that no stage   *)
(* of the pipeline fails on a field of the configuration surface after the *)
(* collection has started or a source cursor has been persisted.           *)
ConfigExceptions == {"KeyError", "TypeError", "ValueError"}

C37_NoConfigFailureAfterCollect ==
    (run.raised \in ConfigExceptions /\ run.io_failed = {}) =>
        ("collect" \notin run.entered /\ group_progress = NoServers)

====
